---- MODULE Spec2Model ----
(***************************************************************************)
(* Ordering, bulk-mutation and repository layer of the shared shopping     *)
(* list client (src/src/firestore.ts, src/src/main.ts).                    *)
(*                                                                         *)
(* Numbers.  Order keys are JavaScript numbers.  They are modelled in      *)
(* fixed point: one unit is 0.0001 (the delta of swapOrders), so the       *)
(* number 1.0 is OrderUnit units and a millisecond timestamp t is the      *)
(* order value t * OrderUnit.  Math.random() is a multiple of              *)
(* OrderUnit / RandLevels in [0, OrderUnit).                               *)
(*                                                                         *)
(* Documents.  A stored document is a record whose DOMAIN is the set of    *)
(* keys actually stored; a legacy document simply has no "order" or        *)
(* "quantity" key.  A collection is a function from document ids to        *)
(* documents whose DOMAIN is the set of existing documents.                *)
(***************************************************************************)
EXTENDS Integers, Sequences, FiniteSets, TLC

\* ---------------------------------------------------------------- bounds
MaxLists == 3          \* list ids are 1..MaxLists
MaxItems == 3          \* item ids of the small specifications are 1..MaxItems
MaxClock == 2          \* clock readings (milliseconds) are 1..MaxClock
RandLevels == 2        \* number of distinct Math.random() outcomes
MaxChunks == 2         \* the bulk specification fills up to MaxChunks full chunks (+1 item)
MaxOrderInt == 7       \* swapOrders inputs are the whole numbers 1..MaxOrderInt
MaxPatchItems == 2     \* items created in specification Spec
MaxRuns == 2           \* backfill runs of one behaviour of specification SpecBackfill
MaxCalls == 1          \* repository calls of one behaviour of specification SpecRepo
MaxFailures == 1       \* store failures of the calls launched without await
MaxLaunches == 3       \* calls launched without await in specification SpecSession
MaxTurns == 2          \* voice turns of one behaviour of specification SpecTurns
MaxPresses == 3        \* presses of the hold-to-talk control in specification SpecRecorder

\* ------------------------------------------------------ program constants
BatchLimit == 400      \* chunk size passed to chunkDocs / documented batch ceiling
OrderUnit == 10000     \* fixed-point units per 1.0 (1 / delta)
delta == 1             \* const delta = 0.0001, in fixed-point units

Directions == {"up", "down"}

ListIds == 1..MaxLists
BulkMaxItems == MaxChunks * BatchLimit + 1
SmallItemIds == 1..MaxItems
RandomFractions == {i * (OrderUnit \div RandLevels) : i \in 0..(RandLevels - 1)}

VARIABLES
  lists,       \* store: collection "lists": list id -> list document
  items,       \* store: subcollections "lists/<id>/items": list id -> (item id -> item document)
  usedIds,     \* auto-generated ids handed out so far: the list ids, the item ids, the highest item id
  clock,       \* current time in milliseconds (Date.now() and serverTimestamp())
  state,       \* client state singleton (src/src/state.ts): user, lists, items, currentListId
  op,          \* the asynchronous repository operation in flight, or Idle
  batchLog,    \* history: one entry per committed write batch
  issued,      \* history: values returned by makeOrder, in call order
  created,     \* history: id and order of the items created by createItem, in call order
  lastMove,    \* history: the last completed move handler
  lastUpdate,  \* history: the updateItem call that has just completed, if any
  swapCall,    \* the swapOrders call under test: arguments and result
  raised,      \* history: the error the store raised to the operation in flight, if any
  calls,       \* history: the outcome of the repository calls that have returned, in order
  tasks,       \* the calls the handlers launched without awaiting them ("void f().finally(..)")
  peer,        \* client state singleton of a second client (another browser)
  voice        \* the voice turn of the client: its position, the status line, the intent

vars == <<lists, items, usedIds, clock, state, op, batchLog, issued, created,
          lastMove, lastUpdate, swapCall, raised, calls, tasks, peer, voice>>

None == [kind |-> "none"]

\* the listener side of a client that has the list selected: the items listeners
\* registered with the store and not unsubscribed, the handle kept in unsubscribeItems
\* (0 is null), what the last subscribeToItems did with the previous handle, and the
\* list whose snapshot last filled state.items (0 when none has)
itemsListening(listId, itemsOf) ==
  [listeners |-> IF listId = 0 THEN {} ELSE {[h |-> 1, listId |-> listId]},
   unsubscribeItems |-> IF listId = 0 THEN 0 ELSE 1,
   lastSwitch |-> [hadListener |-> FALSE, calls |-> 0],
   itemsOf |-> itemsOf]
Idle == [kind |-> "idle", pc |-> "idle"]

\* ============================================================ pure helpers

Min(a, b) == IF a < b THEN a ELSE b

\* the number NaN, which the store accepts as a value and sorts before every other
\* number; no stored timestamp, order or quantity is negative
NaN == -1

\* isFiniteNumber(data.<key>): the key is stored and its value is a number other than NaN
\* (values that are not numbers are not modelled)
isFiniteNumber(data, key) == key \in DOMAIN data /\ data[key] # NaN

\* toDate(value).getTime(): the stored timestamp, or "new Date()" when there is none
toDate(data, key, now) == IF key \in DOMAIN data THEN data[key] ELSE now

\* Date.now() + Math.random()
makeOrder(now, rnd) == now * OrderUnit + rnd

resolveOrder(data, now) ==
  IF isFiniteNumber(data, "order")
    THEN [order |-> data.order, missing |-> FALSE]
    ELSE [order |-> toDate(data, "createdAt", now) * OrderUnit, missing |-> TRUE]

resolveQuantity(data) ==
  IF isFiniteNumber(data, "quantity")
    THEN [quantity |-> data.quantity, missing |-> FALSE]
    ELSE [quantity |-> 1, missing |-> TRUE]

\* swapOrders that perturbs a tie the same way for both directions
swapOrders_ignoresDirection(currentOrder, targetOrder, direction) ==
  IF currentOrder # targetOrder
    THEN [current |-> targetOrder, target |-> currentOrder]
    ELSE [current |-> targetOrder - delta, target |-> targetOrder + delta]

swapOrders(currentOrder, targetOrder, direction) ==
  IF currentOrder # targetOrder
    THEN [current |-> targetOrder, target |-> currentOrder]
    ELSE IF direction = "up"
      THEN [current |-> targetOrder - delta, target |-> targetOrder + delta]
      ELSE [current |-> targetOrder + delta, target |-> targetOrder - delta]

\* chunkDocs: for (i = 0; i < items.length; i += size) result.push(items.slice(i, i + size))
RECURSIVE chunkLoop(_, _, _, _)
chunkLoop(docs, size, i, result) ==
  IF i < Len(docs)
    THEN chunkLoop(docs, size, i + size,
                   Append(result, SubSeq(docs, i + 1, Min(i + size, Len(docs)))))
    ELSE result

chunkDocs(docs, size) == chunkLoop(docs, size, 0, <<>>)

\* ===================================================== the document store

\* Firestore orders documents by id when no orderBy is given (getDocs of a collection);
\* no item id above usedIds.hi and no list id above MaxLists has been generated
idSeq(coll) ==
  SelectSeq([i \in 1..(IF usedIds.hi > MaxLists THEN usedIds.hi ELSE MaxLists) |-> i],
            LAMBDA i : i \in DOMAIN coll)

\* addDoc / setDoc: the document is created or replaced
setDoc(coll, id, data) == [i \in DOMAIN coll \cup {id} |-> IF i = id THEN data ELSE coll[i]]

\* updateDoc: only the keys of the payload are overwritten; requires the document to exist
updateDoc(coll, id, payload) == [coll EXCEPT ![id] = payload @@ coll[id]]

\* deleteDoc: removing a document that does not exist is a no-op
deleteDoc(coll, id) == [i \in DOMAIN coll \ {id} |-> coll[i]]

\* query(collection, orderBy("order", "asc")): the documents that store the field,
\* ascending by it, documents with equal values in id order
orderByOrder(coll) ==
  SortSeq(SelectSeq(idSeq(coll), LAMBDA i : "order" \in DOMAIN coll[i]),
          LAMBDA a, b : coll[a].order < coll[b].order
                        \/ (coll[a].order = coll[b].order /\ a < b))

\* mapItems: decode one snapshot into ItemDoc records
mapItems(coll, now) ==
  LET ids == orderByOrder(coll) IN
  [n \in 1..Len(ids) |->
     LET data == coll[ids[n]] IN
     [id |-> ids[n],
      text |-> IF "text" \in DOMAIN data THEN data.text ELSE "",
      checked |-> IF "checked" \in DOMAIN data THEN data.checked ELSE FALSE,
      quantity |-> resolveQuantity(data).quantity,
      createdAt |-> toDate(data, "createdAt", now),
      updatedAt |-> toDate(data, "updatedAt", now),
      createdBy |-> IF "createdBy" \in DOMAIN data THEN data.createdBy ELSE "",
      order |-> resolveOrder(data, now).order,
      orderMissing |-> resolveOrder(data, now).missing,
      quantityMissing |-> resolveQuantity(data).missing]]

\* mapList: decode one lists snapshot into ListDoc records
mapList(coll, now) ==
  LET ids == orderByOrder(coll) IN
  [n \in 1..Len(ids) |->
     LET data == coll[ids[n]] IN
     [id |-> ids[n],
      name |-> IF "name" \in DOMAIN data THEN data.name ELSE "Untitled",
      createdAt |-> toDate(data, "createdAt", now),
      updatedAt |-> toDate(data, "updatedAt", now),
      createdBy |-> IF "createdBy" \in DOMAIN data THEN data.createdBy ELSE "",
      isDefault |-> IF "isDefault" \in DOMAIN data THEN data.isDefault ELSE FALSE,
      order |-> resolveOrder(data, now).order,
      orderMissing |-> resolveOrder(data, now).missing]]

\* payload of touchList
touchPayload(userName, now) == [updatedAt |-> now, updatedByName |-> userName]

\* payload of persistListOrder and of persistItemOrder for one entry of the argument
orderPayload(entry, userName, now) ==
  [order |-> entry.order, updatedAt |-> now, updatedByName |-> userName]

\* touchList succeeds only on an existing list document (updateDoc)
touchList(ls, listId, userName, now) == updateDoc(ls, listId, touchPayload(userName, now))

\* document written by createList
newListDoc(name, userId, userName, isDefault, now, rnd) ==
  [name |-> name, createdAt |-> now, updatedAt |-> now, createdBy |-> userId,
   createdByName |-> userName, updatedByName |-> userName, isDefault |-> isDefault,
   order |-> makeOrder(now, rnd)]

\* document written by createItem
newItemDoc(text, userId, userName, now, rnd) ==
  [text |-> text, checked |-> FALSE, quantity |-> 1, createdAt |-> now, updatedAt |-> now,
   createdBy |-> userId, createdByName |-> userName, updatedByName |-> userName,
   order |-> makeOrder(now, rnd)]

\* getUserLabel(): the display name of the signed-in user (users are named by their id)
getUserLabel(user) == IF user = "" THEN "Someone" ELSE user

EmptyStore == [l \in ListIds |-> <<>>]

\* ================================================ specification SpecSwap
\* swapOrders applied to every pair of whole-number orders and every direction

SwapInputs == {n * OrderUnit : n \in 1..MaxOrderInt}

InitSwap ==
  /\ lists = <<>>
  /\ items = EmptyStore
  /\ usedIds = [lists |-> {}, items |-> {}, hi |-> 0]
  /\ clock = 1
  /\ state = [user |-> "ann", currentListId |-> 0, items |-> <<>>,
              editingItemId |-> 0, backfilledItemLists |-> {}]
              @@ itemsListening(0, 0)
  /\ op = Idle
  /\ batchLog = <<>>
  /\ issued = <<>>
  /\ created = <<>>
  /\ lastMove = None
  /\ lastUpdate = None
  /\ \E c \in SwapInputs, t \in SwapInputs, d \in Directions :
       swapCall = [kind |-> "called", current |-> c, target |-> t, direction |-> d]
  /\ raised = None
  /\ calls = <<>>
  /\ tasks = {}
  /\ peer = None
  /\ voice = None

\* the call returns; nothing but the result is produced
SwapReturn ==
  /\ swapCall.kind = "called"
  /\ swapCall' = [kind |-> "returned", current |-> swapCall.current,
                  target |-> swapCall.target, direction |-> swapCall.direction,
                  result |-> swapOrders(swapCall.current, swapCall.target, swapCall.direction)]
  /\ UNCHANGED <<lists, items, usedIds, clock, state, op, batchLog, issued, created,
                 lastMove, lastUpdate, raised, calls, tasks, peer, voice>>

NextSwap == SwapReturn

SpecSwap == InitSwap /\ [][NextSwap]_vars

\* ------------------------------------------------------------------- C3
\* the reference result of the claim, written from the claim's case analysis
RefSwap(c, t, d) ==
  IF c # t THEN [current |-> t, target |-> c]
  ELSE IF d = "up" THEN [current |-> t - 1, target |-> t + 1]
  ELSE [current |-> t + 1, target |-> t - 1]

\* C3: swapOrders(c, t, dir) equals the reference (exchange when the orders differ,
\* perturb by 0.0001 in the direction of the move when they are equal), in particular
\* swapOrders(5, 5, up) = {4.9999, 5.0001} and swapOrders(3, 7, down) = {7, 3}, and
\* the call writes nothing to the store.
C3_SwapOrdersReference ==
  /\ swapCall.kind = "returned" =>
       /\ swapCall.result = RefSwap(swapCall.current, swapCall.target, swapCall.direction)
       /\ (swapCall.current = 50000 /\ swapCall.target = 50000 /\ swapCall.direction = "up")
            => swapCall.result = [current |-> 49999, target |-> 50001]
       /\ (swapCall.current = 30000 /\ swapCall.target = 70000 /\ swapCall.direction = "down")
            => swapCall.result = [current |-> 70000, target |-> 30000]
       /\ lists = <<>> /\ items = EmptyStore /\ batchLog = <<>>

\* a tie has been perturbed upwards
C3_Witness ==
  /\ swapCall.kind = "returned"
  /\ swapCall.current = swapCall.target
  /\ swapCall.direction = "up"
  /\ swapCall.result.current < swapCall.result.target

\* ============================================== write batches (writeBatch)
(***************************************************************************)
(* A write batch is the list of mutations added to it, committed           *)
(* atomically and applied in the order they were added.  Mutations of      *)
(* different documents commute, so the batch is kept as a function from    *)
(* document reference <<list id, item id>> to the mutations of that        *)
(* document, in the order they were added.  Every loop that fills a batch  *)
(* addresses, in the iteration of item i, documents with id i only.        *)
(***************************************************************************)
NoDoc == [absent |-> TRUE]

\* number of mutations in the batch
batchSize(batch) == Cardinality(UNION {{<<r, j>> : j \in DOMAIN batch[r]} : r \in DOMAIN batch})

\* one mutation applied to a document (or to NoDoc)
applyWrite(doc, w) ==
  IF w.type = "delete" THEN NoDoc
  ELSE IF w.type = "set" THEN w.data
  ELSE w.data @@ doc

RECURSIVE applyWrites(_, _)
applyWrites(doc, ws) ==
  IF ws = <<>> THEN doc ELSE applyWrites(applyWrite(doc, Head(ws)), Tail(ws))

\* an update of a document that does not exist makes the commit fail
RECURSIVE writesOk(_, _)
writesOk(doc, ws) ==
  IF ws = <<>> THEN TRUE
  ELSE /\ (Head(ws).type = "update" => doc # NoDoc)
       /\ writesOk(applyWrite(doc, Head(ws)), Tail(ws))

stored(its, r) == IF r[2] \in DOMAIN its[r[1]] THEN its[r[1]][r[2]] ELSE NoDoc

batchOk(its, batch) == \A r \in DOMAIN batch : writesOk(stored(its, r), batch[r])

\* the item collections after the commit of the batch
applyBatch(its, batch) ==
  [l \in DOMAIN its |->
     LET written == {r[2] : r \in {q \in DOMAIN batch : q[1] = l}}
         final(i) == applyWrites(stored(its, <<l, i>>), batch[<<l, i>>])
         gone == {i \in written : final(i) = NoDoc}
     IN IF written = {} THEN its[l]
        ELSE [i \in (DOMAIN its[l] \cup written) \ gone |->
                IF i \in written THEN final(i) ELSE its[l][i]]]

\* ================================================ asynchronous operations
(***************************************************************************)
(* op is the repository call in flight.  pc is the await it is suspended   *)
(* at: "getDocs", "ensureDefault" (createList of the Inbox), "commit" (of  *)
(* chunk k + 1), "final" (deleteDoc of the list, or touchList), and then   *)
(* "resolved" or "rejected" with the store's error.                        *)
(***************************************************************************)
newOp(kind, listId, userId, keepItems, defaultArg, checked) ==
  [kind |-> kind, pc |-> "getDocs", listId |-> listId, userId |-> userId,
   userName |-> getUserLabel(userId), keepItems |-> keepItems, defaultArg |-> defaultArg,
   checked |-> checked, ids |-> <<>>, data |-> <<>>, defaultListId |-> 0, k |-> 0,
   touched |-> FALSE, error |-> None, updates |-> <<>>, args |-> None, result |-> 0]

\* the error the store raises for a failed call
storeError(call, chunk) == [kind |-> "storeError", call |-> call, chunk |-> chunk]

\* const batches = chunkDocs(docs, 400)
batchesOf(o) == chunkDocs(o.ids, BatchLimit)

BackfillKinds == {"backfillItemOrder", "backfillListOrder"}

\* the collection the operation reads with getDocs
scopeOf(kind, listId) == IF kind = "backfillListOrder" THEN lists ELSE items[listId]

\* filter that selects every record, missing a field or not
backfillSelects_everyRecord(kind, data) == TRUE

\* .filter((entry) => entry.order === null [|| entry.quantity === null])
backfillSelects(kind, data) ==
  \/ ~isFiniteNumber(data, "order")
  \/ (kind = "backfillItemOrder" /\ ~isFiniteNumber(data, "quantity"))

\* the missing records, sorted by createdAt ascending; the sort is stable, records with
\* the same createdAt stay in the order of the getDocs result
backfillMissing(kind, coll, now) ==
  SortSeq(SelectSeq(idSeq(coll), LAMBDA i : backfillSelects(kind, coll[i])),
          LAMBDA a, b : \/ toDate(coll[a], "createdAt", now) < toDate(coll[b], "createdAt", now)
                        \/ (toDate(coll[a], "createdAt", now) = toDate(coll[b], "createdAt", now)
                             /\ a < b))

\* missing.map((entry, index) => ({ref, order: entry.order ?? createdAt.getTime() + index,
\* quantity: entry.quantity ?? 1})), keyed by document id
backfillUpdates(kind, coll, now) ==
  LET missing == backfillMissing(kind, coll, now)
      index(i) == (CHOOSE n \in DOMAIN missing : missing[n] = i) - 1
  IN [i \in {missing[n] : n \in DOMAIN missing} |->
        LET order == IF isFiniteNumber(coll[i], "order") THEN coll[i].order
                     ELSE (toDate(coll[i], "createdAt", now) + index(i)) * OrderUnit
        IN IF kind = "backfillItemOrder"
             THEN [order |-> order,
                   quantity |-> IF isFiniteNumber(coll[i], "quantity")
                                  THEN coll[i].quantity ELSE 1]
             ELSE [order |-> order]]

\* selection that takes every item, checked or not
selectedDocs_ignoresChecked(kind, coll) == idSeq(coll)

\* the documents the operation works on, selected from the result of getDocs
selectedDocs(kind, coll) ==
  IF kind = "clearCheckedItems"
    THEN SelectSeq(idSeq(coll), LAMBDA i : "checked" \in DOMAIN coll[i] /\ coll[i].checked)
    ELSE IF kind \in BackfillKinds THEN backfillMissing(kind, coll, clock)
    ELSE idSeq(coll)

\* copy built from the decoded item record, decode-only flags included
migratedDoc_fromDecoded(o, id) ==
  LET data == o.data[id] IN
  [text |-> IF "text" \in DOMAIN data THEN data.text ELSE "",
   checked |-> IF "checked" \in DOMAIN data THEN data.checked ELSE FALSE,
   quantity |-> resolveQuantity(data).quantity,
   createdAt |-> toDate(data, "createdAt", clock),
   updatedAt |-> clock,
   createdBy |-> o.userId,
   createdByName |-> o.userName,
   updatedByName |-> o.userName,
   order |-> resolveOrder(data, clock).order,
   orderMissing |-> resolveOrder(data, clock).missing,
   quantityMissing |-> resolveQuantity(data).missing]

\* the copy of an item written under the default list
migratedDoc(o, id) ==
  LET data == o.data[id] IN
  [text |-> IF "text" \in DOMAIN data THEN data.text ELSE "",
   checked |-> IF "checked" \in DOMAIN data THEN data.checked ELSE FALSE,
   quantity |-> IF isFiniteNumber(data, "quantity") THEN data.quantity ELSE 1,
   createdAt |-> toDate(data, "createdAt", clock),
   updatedAt |-> clock,
   createdBy |-> o.userId,
   createdByName |-> o.userName,
   updatedByName |-> o.userName,
   order |-> IF isFiniteNumber(data, "order") THEN data.order
             ELSE toDate(data, "createdAt", clock) * OrderUnit]

\* loop body that leaves the original item in place when the items are not kept
deleteListBody_keepsOriginal(o, id) ==
  IF o.keepItems /\ o.defaultListId # 0
    THEN <<[ref |-> <<o.defaultListId, id>>, type |-> "set", data |-> migratedDoc(o, id)],
           [ref |-> <<o.listId, id>>, type |-> "delete"]>>
    ELSE <<[ref |-> <<o.listId, id>>, type |-> "update", data |-> [updatedAt |-> clock]]>>

\* loop body of deleteListWithItems
deleteListBody(o, id) ==
  (IF o.keepItems /\ o.defaultListId # 0
     THEN <<[ref |-> <<o.defaultListId, id>>, type |-> "set", data |-> migratedDoc(o, id)]>>
     ELSE <<>>)
  \o <<[ref |-> <<o.listId, id>>, type |-> "delete"]>>

\* loop body that replaces the item by the new flag instead of patching it
updateAllBody_replacesItem(o, id) ==
  <<[ref |-> <<o.listId, id>>, type |-> "set",
     data |-> [checked |-> o.checked, updatedAt |-> clock, updatedByName |-> o.userName]]>>

\* loop body of updateAllItems
updateAllBody(o, id) ==
  <<[ref |-> <<o.listId, id>>, type |-> "update",
     data |-> [checked |-> o.checked, updatedAt |-> clock, updatedByName |-> o.userName]]>>

\* loop body of clearAllItems and of clearCheckedItems
clearBody(o, id) == <<[ref |-> <<o.listId, id>>, type |-> "delete"]>>

\* loop body of backfillItemOrder and of backfillListOrder; list documents are addressed
\* as <<0, list id>>
backfillBody(o, id) ==
  <<[ref |-> <<IF o.kind = "backfillListOrder" THEN 0 ELSE o.listId, id>>, type |-> "update",
     data |-> o.updates[id] @@ [updatedAt |-> clock, updatedByName |-> o.userName]]>>

\* the mutations the loop body of the operation adds for one item
loopBody(o, id) ==
  IF o.kind = "deleteListWithItems" THEN deleteListBody(o, id)
  ELSE IF o.kind = "updateAllItems" THEN updateAllBody(o, id)
  ELSE IF o.kind \in BackfillKinds THEN backfillBody(o, id)
  ELSE clearBody(o, id)

\* the batch the operation builds for one chunk: "for (const item of batchDocs) ..."
batchFor(o, chunk) ==
  LET refs == UNION {{loopBody(o, chunk[n])[j].ref : j \in DOMAIN loopBody(o, chunk[n])}
                       : n \in DOMAIN chunk}
  IN [r \in refs |-> SelectSeq(loopBody(o, r[2]), LAMBDA w : w.ref = r)]

\* continuation that goes to the last await without committing the chunks
afterChunks_skipsChunks(o) == "final"

\* where the operation continues once its chunks are exhausted
afterChunks(o) ==
  IF o.k < Len(batchesOf(o)) THEN "commit"
  ELSE IF o.kind = "backfillListOrder" THEN "resolved"
  ELSE "final"

\* where the operation continues after getDocs: "if (missing.length === 0) return;"
afterRead(o) ==
  IF o.kind \in BackfillKinds /\ o.ids = <<>> THEN "resolved" ELSE afterChunks(o)

\* a rejected commit that is swallowed: the loop goes on with the next chunk
rejected_swallowed(o, err) ==
  IF err.call = "commit"
    THEN [o EXCEPT !.k = @ + 1,
                   !.pc = IF o.k + 1 < Len(chunkDocs(o.ids, BatchLimit)) THEN "commit" ELSE "final"]
    ELSE [o EXCEPT !.pc = "rejected", !.error = err]

\* a rejected await: the error propagates out of the operation
rejected(o, err) == [o EXCEPT !.pc = "rejected", !.error = err]

\* await getDocs(collection(db, "lists", listId, "items"))
OpGetDocs ==
  /\ op.pc = "getDocs"
  /\ LET coll == scopeOf(op.kind, op.listId)
         o == [op EXCEPT !.ids = selectedDocs(op.kind, coll),
                         !.data = coll,
                         !.updates = IF op.kind \in BackfillKinds
                                       THEN backfillUpdates(op.kind, coll, clock) ELSE <<>>]
     IN op' = [o EXCEPT !.pc = IF o.kind = "deleteListWithItems" /\ o.keepItems
                                 THEN "ensureDefault" ELSE afterRead(o)]
  /\ UNCHANGED <<lists, items, usedIds, clock, state, batchLog, issued, created,
                 lastMove, lastUpdate, swapCall, raised, calls, tasks, peer, voice>>

\* createList: addDoc of the list document with a fresh order
createList(id, name, userId, userName, isDefault, rnd) ==
  /\ lists' = setDoc(lists, id, newListDoc(name, userId, userName, isDefault, clock, rnd))
  /\ usedIds' = [usedIds EXCEPT !.lists = @ \cup {id}]
  /\ issued' = Append(issued, makeOrder(clock, rnd))

\* ensureDefaultListId: the id passed in, or createList of a new Inbox
OpEnsureDefault ==
  /\ op.pc = "ensureDefault"
  /\ IF op.defaultArg # 0
       THEN /\ op' = [[op EXCEPT !.defaultListId = op.defaultArg]
                        EXCEPT !.pc = afterChunks(op)]
            /\ UNCHANGED <<lists, usedIds, issued>>
       ELSE \E id \in ListIds \ usedIds.lists :
              /\ createList(id, "Inbox", op.userId, op.userName, TRUE, 0)
              /\ op' = [[op EXCEPT !.defaultListId = id] EXCEPT !.pc = afterChunks(op)]
  /\ UNCHANGED <<items, clock, state, batchLog, created, lastMove, lastUpdate, swapCall, raised, calls, tasks, peer, voice>>

\* await batch.commit() of the next chunk
OpCommitChunk ==
  /\ op.pc = "commit"
  /\ LET chunk == batchesOf(op)[op.k + 1]
         batch == batchFor(op, chunk)
         docs == IF op.kind = "backfillListOrder" THEN (0 :> lists) ELSE items
     IN IF batchOk(docs, batch)
          THEN /\ IF op.kind = "backfillListOrder"
                    THEN lists' = applyBatch(docs, batch)[0] /\ UNCHANGED items
                    ELSE items' = applyBatch(docs, batch) /\ UNCHANGED lists
               /\ batchLog' = Append(batchLog, [op |-> op.kind, chunk |-> op.k + 1,
                                                size |-> batchSize(batch)])
               /\ op' = [[op EXCEPT !.k = @ + 1] EXCEPT !.pc = afterChunks([op EXCEPT !.k = @ + 1])]
               /\ UNCHANGED raised
          ELSE /\ op' = rejected(op, storeError("commit", op.k + 1))
               /\ raised' = storeError("commit", op.k + 1)
               /\ UNCHANGED <<lists, items, batchLog>>
  /\ UNCHANGED <<usedIds, clock, state, issued, created, lastMove, lastUpdate, swapCall,
                 calls, tasks, peer, voice>>

\* the last await: deleteDoc of the list (deleteListWithItems) or touchList (the others)
OpFinal ==
  /\ op.pc = "final"
  /\ IF op.kind = "deleteListWithItems"
       THEN /\ lists' = deleteDoc(lists, op.listId)
            /\ op' = [op EXCEPT !.pc = "resolved"]
            /\ UNCHANGED raised
       ELSE IF op.listId \in DOMAIN lists
         THEN /\ lists' = touchList(lists, op.listId, op.userName, clock)
              /\ op' = [op EXCEPT !.pc = "resolved", !.touched = TRUE]
              /\ UNCHANGED raised
         ELSE /\ op' = rejected(op, storeError("final", 0))
              /\ raised' = storeError("final", 0)
              /\ UNCHANGED lists
  /\ UNCHANGED <<items, usedIds, clock, state, batchLog, issued, created,
                 lastMove, lastUpdate, swapCall, calls, tasks, peer, voice>>

\* the store rejects the call the operation is awaiting
OpStoreFails ==
  /\ op.pc \in {"getDocs", "write", "commit", "final"}
     \/ (op.pc = "ensureDefault" /\ op.defaultArg = 0)
  /\ op' = rejected(op, storeError(op.pc, IF op.pc = "commit" THEN op.k + 1 ELSE 0))
  /\ raised' = storeError(op.pc, IF op.pc = "commit" THEN op.k + 1 ELSE 0)
  /\ UNCHANGED <<lists, items, usedIds, clock, state, batchLog, issued, created,
                 lastMove, lastUpdate, swapCall, calls, tasks, peer, voice>>

\* the caller's await returns (or throws); the client is ready for the next operation
OpReturn ==
  /\ op.pc \in {"resolved", "rejected"}
  /\ op' = Idle
  /\ calls' = Append(calls, [kind |-> op.kind, listId |-> op.listId, result |-> op.pc,
                              error |-> op.error, writes |-> Len(batchLog),
                              touched |-> op.touched])
  /\ raised' = None
  /\ UNCHANGED <<lists, items, usedIds, clock, state, batchLog, issued, created,
                 lastMove, lastUpdate, swapCall, tasks, peer, voice>>

\* findFirst default list of a lists snapshot: state.lists.find((list) => list.isDefault)?.id
findDefault(ls) ==
  LET ordered == orderByOrder(ls)
      hits == SelectSeq(ordered, LAMBDA l : ls[l].isDefault)
  IN IF hits = <<>> THEN 0 ELSE hits[1]

\* confirmDeleteBtn click handler / runIntent "delete_list": deleteListWithItems is
\* called for an existing list with the default list of the current lists snapshot
CallDeleteListWithItems(l, keepItems, userId) ==
  /\ op = Idle
  /\ l \in DOMAIN lists
  /\ op' = newOp("deleteListWithItems", l, userId, keepItems, findDefault(lists), FALSE)
  /\ batchLog' = <<>>
  /\ UNCHANGED <<lists, items, usedIds, clock, state, issued, created,
                 lastMove, lastUpdate, swapCall, raised, calls, tasks, peer, voice>>

\* checkAllBtn / uncheckAllBtn / clearCheckedBtn / clearAllBtn click handlers
CallBulk(kind, l, checked, userId) ==
  /\ op = Idle
  /\ l \in DOMAIN lists
  /\ op' = newOp(kind, l, userId, FALSE, 0, checked)
  /\ batchLog' = <<>>
  /\ UNCHANGED <<lists, items, usedIds, clock, state, issued, created,
                 lastMove, lastUpdate, swapCall, raised, calls, tasks, peer, voice>>

\* =============================================== specification SpecOrder
\* one client, one list: items are created, delivered in ordered snapshots and moved

Ids(decoded) == [n \in 1..Len(decoded) |-> decoded[n].id]

\* findIndex: the first position holding the id, 0 when there is none (-1 in the source)
findIndex(decoded, id) ==
  IF \E n \in 1..Len(decoded) : decoded[n].id = id
    THEN CHOOSE n \in 1..Len(decoded) :
           decoded[n].id = id /\ \A m \in 1..(n - 1) : decoded[m].id # id
    ELSE 0

InitOrder ==
  /\ lists = (1 :> newListDoc("Inbox", "ann", "ann", TRUE, 1, 0))
  /\ items = EmptyStore
  /\ usedIds = [lists |-> {1}, items |-> {}, hi |-> 0]
  /\ clock = 1
  /\ state = [user |-> "ann", currentListId |-> 1, items |-> <<>>,
              editingItemId |-> 0, backfilledItemLists |-> {}]
              @@ itemsListening(1, 0)
  /\ op = Idle
  /\ batchLog = <<>>
  /\ issued = <<>>
  /\ created = <<>>
  /\ lastMove = None
  /\ lastUpdate = None
  /\ swapCall = None
  /\ raised = None
  /\ calls = <<>>
  /\ tasks = {}
  /\ peer = None
  /\ voice = None

\* time passes
Tick ==
  /\ clock < MaxClock
  /\ clock' = clock + 1
  /\ UNCHANGED <<lists, items, usedIds, state, op, batchLog, issued, created,
                 lastMove, swapCall, raised, calls, tasks, peer, voice>>
  /\ lastUpdate' = None

\* createItem: addDoc of the new item, then touchList; the id is auto-generated
createItem(listId, id, text, userId, userName, rnd) ==
  /\ items' = [items EXCEPT ![listId] = setDoc(@, id, newItemDoc(text, userId, userName, clock, rnd))]
  /\ lists' = IF listId \in DOMAIN lists THEN touchList(lists, listId, userName, clock) ELSE lists
  /\ usedIds' = [usedIds EXCEPT !.items = @ \cup {id}, !.hi = IF id > @ THEN id ELSE @]
  /\ issued' = Append(issued, makeOrder(clock, rnd))
  /\ created' = Append(created, [id |-> id, order |-> makeOrder(clock, rnd)])

\* newItemForm submit handler (and one iteration of the add_items_bulk loop); rnds are
\* the outcomes of Math.random() and ids the auto-generated ids the run considers
NewItemSubmit(text, rnds, ids) ==
  /\ op = Idle
  /\ state.user # ""
  /\ state.currentListId # 0
  /\ \E id \in ids \ usedIds.items, rnd \in rnds :
       createItem(state.currentListId, id, text, state.user, getUserLabel(state.user), rnd)
  /\ lastMove' = None
  /\ lastUpdate' = None
  /\ UNCHANGED <<clock, state, op, batchLog, swapCall, raised, calls, tasks, peer, voice>>

\* a call launched without await by client c: "void f(...).catch(..)" / ".finally(..)";
\* n numbers the calls launched so far, finished ones included
newTask(n, kind, c, listId, user) ==
  [n |-> n, client |-> c, kind |-> kind, listId |-> listId, userId |-> user,
   userName |-> getUserLabel(user),
   pc |-> IF kind = "ensureDefaultListId" THEN "write" ELSE "getDocs",
   ids |-> <<>>, updates |-> <<>>, k |-> 0]

\* the call has neither resolved nor rejected
InFlight(t) == t.pc \notin {"done", "failed"}

\* trigger that does not look at the set of lists already handed to the engine
itemBackfillDue_ignoresFlag(st, decoded) ==
  /\ st.user # ""
  /\ st.currentListId # 0
  /\ \E n \in 1..Len(decoded) : decoded[n].orderMissing \/ decoded[n].quantityMissing

\* the condition under which the items snapshot callback starts backfillItemOrder
itemBackfillDue(st, decoded) ==
  /\ st.user # ""
  /\ st.currentListId # 0
  /\ \E n \in 1..Len(decoded) : decoded[n].orderMissing \/ decoded[n].quantityMissing
  /\ st.currentListId \notin st.backfilledItemLists

\* an items snapshot callback that leaves the edit state alone
ItemsSnapshot_keepsEditing ==
  \E l \in state.listeners :
  /\ LET decoded == mapItems(items[l.listId], clock)
         editingGone == state.editingItemId # 0
                        /\ \A n \in 1..Len(decoded) : decoded[n].id # state.editingItemId
         backfill == itemBackfillDue(state, decoded)
     IN /\ state' = [state EXCEPT
                       !.items = decoded,
                       !.itemsOf = l.listId,
                       !.editingItemId = @,
                       !.backfilledItemLists =
                          IF backfill THEN @ \cup {state.currentListId} ELSE @]
        /\ tasks' = IF backfill
                      THEN tasks \cup {newTask(Cardinality(tasks) + 1, "backfillItemOrder", 1,
                                               state.currentListId, state.user)}
                      ELSE tasks
        /\ state'.items # state.items \/ (lastMove.kind = "move" /\ ~lastMove.seen)
  /\ lastMove' = IF lastMove.kind = "move" THEN [lastMove EXCEPT !.seen = TRUE] ELSE lastMove
  /\ UNCHANGED <<lists, items, usedIds, clock, op, batchLog, issued, created, swapCall,
                 raised, calls, peer, voice>>
  /\ lastUpdate' = None

\* the onSnapshot callback registered by subscribeToItems
ItemsSnapshot ==
  \E l \in state.listeners :
  /\ LET decoded == mapItems(items[l.listId], clock)
         editingGone == state.editingItemId # 0
                        /\ \A n \in 1..Len(decoded) : decoded[n].id # state.editingItemId
         backfill == itemBackfillDue(state, decoded)
     IN /\ state' = [state EXCEPT
                       !.items = decoded,
                       !.itemsOf = l.listId,
                       !.editingItemId = IF editingGone THEN 0 ELSE @,
                       !.backfilledItemLists =
                          IF backfill THEN @ \cup {state.currentListId} ELSE @]
        /\ tasks' = IF backfill
                      THEN tasks \cup {newTask(Cardinality(tasks) + 1, "backfillItemOrder", 1,
                                               state.currentListId, state.user)}
                      ELSE tasks
        /\ state'.items # state.items \/ (lastMove.kind = "move" /\ ~lastMove.seen)
  /\ lastMove' = IF lastMove.kind = "move" THEN [lastMove EXCEPT !.seen = TRUE] ELSE lastMove
  /\ UNCHANGED <<lists, items, usedIds, clock, op, batchLog, issued, created, swapCall,
                 raised, calls, peer, voice>>
  /\ lastUpdate' = None

\* persistItemOrder: one batch of updates (atomic, fails when a document is gone),
\* then touchList
persistItemOrder(listId, updates, userName) ==
  LET coll == items[listId]
      ok == \A n \in 1..Len(updates) : updates[n].id \in DOMAIN coll
  IN /\ items' = IF ok
                   THEN [items EXCEPT ![listId] =
                           [i \in DOMAIN coll |->
                              IF \E n \in 1..Len(updates) : updates[n].id = i
                                THEN LET u == CHOOSE n \in 1..Len(updates) :
                                                updates[n].id = i
                                                /\ \A m \in (n + 1)..Len(updates) : updates[m].id # i
                                     IN orderPayload(updates[u], userName, clock) @@ coll[i]
                                ELSE coll[i]]]
                   ELSE items
     /\ lists' = IF ok /\ listId \in DOMAIN lists
                   THEN touchList(lists, listId, userName, clock) ELSE lists
     /\ UNCHANGED batchLog

\* what a move handler remembers for the claims about moves
moveRecord(itemId, index, targetIndex) ==
  [kind |-> "move", id |-> itemId, index |-> index, targetIndex |-> targetIndex,
   before |-> Ids(state.items),
   fresh |-> Ids(state.items) = orderByOrder(items[state.currentListId]),
   seen |-> FALSE]

\* itemHandlers.onMoveItem
OnMoveItem(itemId, direction) ==
  /\ op = Idle
  /\ state.user # "" /\ state.currentListId # 0
  /\ LET index == findIndex(state.items, itemId)
         targetIndex == IF direction = "up" THEN index - 1 ELSE index + 1
     IN /\ index >= 1
        /\ targetIndex >= 1 /\ targetIndex <= Len(state.items)
        /\ LET current == state.items[index]
               target == state.items[targetIndex]
               orders == swapOrders(current.order, target.order, direction)
               updatedCurrent == [current EXCEPT !.order = orders.current]
               updatedTarget == [target EXCEPT !.order = orders.target]
           IN /\ state' = [state EXCEPT !.items =
                             [@ EXCEPT ![index] = updatedTarget, ![targetIndex] = updatedCurrent]]
              /\ persistItemOrder(state.currentListId,
                                  <<[id |-> updatedCurrent.id, order |-> updatedCurrent.order],
                                    [id |-> updatedTarget.id, order |-> updatedTarget.order]>>,
                                  getUserLabel(state.user))
        /\ lastMove' = moveRecord(itemId, index, targetIndex)
  /\ UNCHANGED <<usedIds, clock, op, issued, created, lastUpdate, swapCall, raised, calls, tasks, peer, voice>>

\* runIntent, case "move_item" (the intent carries itemId and direction)
VoiceMoveItem(itemId, direction) ==
  /\ op = Idle
  /\ state.user # "" /\ state.currentListId # 0
  /\ LET index == findIndex(state.items, itemId)
         targetIndex == IF direction = "up" THEN index - 1 ELSE index + 1
     IN /\ index >= 1
        /\ targetIndex >= 1 /\ targetIndex <= Len(state.items)
        /\ LET current == state.items[index]
               target == state.items[targetIndex]
               orders == swapOrders(current.order, target.order, direction)
           IN persistItemOrder(state.currentListId,
                               <<[id |-> current.id, order |-> orders.current],
                                 [id |-> target.id, order |-> orders.target]>>,
                               getUserLabel(state.user))
        /\ lastMove' = moveRecord(itemId, index, targetIndex)
  /\ UNCHANGED <<usedIds, clock, state, op, issued, created, lastUpdate, swapCall, raised, calls, tasks, peer, voice>>

\* the listener of the selected list has delivered every change of the store
SnapshotsDelivered ==
  state.currentListId # 0 => state.items = mapItems(items[state.currentListId], clock)

\* a single client: its listener fires for each local write before the next user event
NextOrder ==
  \/ Tick
  \/ SnapshotsDelivered /\ NewItemSubmit("milk", RandomFractions, SmallItemIds)
  \/ ItemsSnapshot
  \/ SnapshotsDelivered /\ \E i \in SmallItemIds, d \in Directions : OnMoveItem(i, d)
  \/ SnapshotsDelivered /\ \E i \in SmallItemIds, d \in Directions : VoiceMoveItem(i, d)

SpecOrder == InitOrder /\ [][NextOrder]_vars

\* ------------------------------------------------------------------- C4
\* the sequence with the elements at positions i and j exchanged
Exchanged(seq, i, j) ==
  [n \in 1..Len(seq) |-> IF n = i THEN seq[j] ELSE IF n = j THEN seq[i] ELSE seq[n]]

\* C4: a single move of the record at index i of the sorted collection exchanges it with
\* its immediate neighbour only: in the next ordered snapshot the moved record and the
\* neighbour have traded places and every other record is where it was, also when
\* several records share an order value.
C4_MoveSwapsNeighbourOnly ==
  (lastMove.kind = "move" /\ lastMove.fresh /\ lastMove.seen)
    => Ids(state.items) = Exchanged(lastMove.before, lastMove.index, lastMove.targetIndex)

\* ------------------------------------------------------------------- C5
\* C5: every value returned by makeOrder is strictly greater than every value it
\* returned earlier in the same process.
C5_MakeOrderStrictlyMonotonic ==
  \A i \in 1..Len(issued) : \A j \in (i + 1)..Len(issued) : issued[i] < issued[j]

\* ------------------------------------------------------------------- C6
\* the created items are still stored with the order createItem gave them
CreatedUntouched ==
  \A n \in 1..Len(created) :
    /\ created[n].id \in DOMAIN items[state.currentListId]
    /\ items[state.currentListId][created[n].id].order = created[n].order

\* C6: after sequential createItem calls on one list the ordered subscription delivers
\* the created records in non-decreasing order value and in the order of the calls.
C6_SnapshotMatchesCallOrder ==
  (state.currentListId # 0 /\ SnapshotsDelivered /\ CreatedUntouched)
    => /\ \A n \in 1..(Len(state.items) - 1) : state.items[n].order <= state.items[n + 1].order
       /\ Ids(state.items) = [n \in 1..Len(created) |-> created[n].id]

\* ================================================ specification SpecBulk
\* one bulk operation on a list holding up to MaxChunks full chunks of items (+1)

BulkSizes ==
  {n \in 0..BulkMaxItems : \E c \in 0..MaxChunks : n \in {c * BatchLimit - 1, c * BatchLimit,
                                                           c * BatchLimit + 1}}

\* item i of a list filled by the i-th createItem call at millisecond i; when edited,
\* every second item has been checked and every third one renamed and given quantity 3
bulkItem(i, edited) ==
  [newItemDoc(IF edited /\ i % 3 = 0 THEN "rice" ELSE "milk", "ann", "ann", i, 0)
     EXCEPT !.checked = edited /\ i % 2 = 1,
            !.quantity = IF edited /\ i % 3 = 0 THEN 3 ELSE 1]

\* list 1 is the Inbox (when there is one), list 2 an ordinary list; src holds the items
\* and the other list one item of its own
InitBulk ==
  \E n \in BulkSizes, src \in {1, 2}, hasDefault \in BOOLEAN, edited \in BOOLEAN :
    /\ src = 1 => hasDefault
    /\ lists = [l \in (IF hasDefault THEN {1, 2} ELSE {2}) |->
                  newListDoc(IF l = 1 THEN "Inbox" ELSE "Shop", "ann", "ann", l = 1, l, 0)]
    /\ items = [l \in ListIds |->
                  IF l = src THEN [i \in 1..n |-> bulkItem(i, edited)]
                  ELSE IF l = 3 - src /\ (l = 2 \/ hasDefault)
                    THEN ((n + 1) :> [bulkItem(n + 1, FALSE) EXCEPT !.text = "bread"])
                    ELSE <<>>]
    /\ usedIds = [lists |-> {1, 2}, items |-> 1..(n + 1), hi |-> n + 1]
    /\ clock = BulkMaxItems + 1
    /\ state = [user |-> "bob", currentListId |-> src, items |-> <<>>,
                editingItemId |-> 0, backfilledItemLists |-> {}]
                @@ itemsListening(src, 0)
    /\ op = Idle
    /\ batchLog = <<>>
    /\ issued = <<>>
    /\ created = <<>>
    /\ lastMove = None
    /\ lastUpdate = None
    /\ swapCall = None
    /\ raised = None
    /\ calls = <<>>
    /\ tasks = {}
    /\ peer = None
    /\ voice = None

BulkKinds == {"updateAllItems", "clearAllItems", "clearCheckedItems"}

NextBulk ==
  \/ \E keep \in BOOLEAN : CallDeleteListWithItems(state.currentListId, keep, state.user)
  \/ \E kind \in BulkKinds, checked \in BOOLEAN :
       /\ (kind # "updateAllItems" => ~checked)
       /\ CallBulk(kind, state.currentListId, checked, state.user)
  \/ OpGetDocs
  \/ OpEnsureDefault
  \/ OpCommitChunk
  \/ OpFinal
  \/ OpStoreFails

SpecBulk == InitBulk /\ [][NextBulk]_vars

\* ==================================================== specification Spec
\* one client creates items in the selected list and patches them

\* the Inbox exists and is selected
InitSpec ==
  /\ lists = (1 :> newListDoc("Inbox", "ann", "ann", TRUE, 1, 0))
  /\ items = EmptyStore
  /\ usedIds = [lists |-> {1}, items |-> {}, hi |-> 0]
  /\ clock = 1
  /\ state = [user |-> "ann", currentListId |-> 1, items |-> <<>>,
              editingItemId |-> 0, backfilledItemLists |-> {}]
              @@ itemsListening(1, 0)
  /\ op = Idle
  /\ batchLog = <<>>
  /\ issued = <<>>
  /\ created = <<>>
  /\ lastMove = None
  /\ lastUpdate = None
  /\ swapCall = None
  /\ raised = None
  /\ calls = <<>>
  /\ tasks = {}
  /\ peer = None
  /\ voice = None

\* payload that always carries text, checked and quantity, defaulted when not in the call
updateItemPayload_fullRecord(data, userName, now) ==
  [k \in {"updatedByName", "updatedAt", "text", "checked", "quantity"} |->
     IF k = "updatedByName" THEN userName
     ELSE IF k = "updatedAt" THEN now
     ELSE IF k \in DOMAIN data THEN data[k]
     ELSE IF k = "text" THEN "" ELSE IF k = "checked" THEN FALSE ELSE 1]

\* payload built by updateItem: the stamps and only the keys present in the call
updateItemPayload(data, userName, now) ==
  [k \in {"updatedByName", "updatedAt"}
         \cup {k \in {"text", "checked", "quantity"} : k \in DOMAIN data} |->
     IF k = "updatedByName" THEN userName
     ELSE IF k = "updatedAt" THEN now
     ELSE data[k]]

\* updateItem: updateDoc with the payload (fails when the item is gone), then touchList
updateItem(listId, itemId, data, userName) ==
  LET payload == updateItemPayload(data, userName, clock)
      exists == itemId \in DOMAIN items[listId]
  IN /\ items' = IF exists THEN [items EXCEPT ![listId] = updateDoc(@, itemId, payload)]
                           ELSE items
     /\ lists' = IF exists /\ listId \in DOMAIN lists
                   THEN touchList(lists, listId, userName, clock) ELSE lists
     /\ lastUpdate' = [kind |-> "updateItem", listId |-> listId, id |-> itemId,
                       data |-> data, payload |-> payload,
                       before |-> IF exists THEN items[listId][itemId] ELSE NoDoc]

\* the calls the handlers and intents make: any subset of text, checked and quantity
UpdateInputs ==
  {[k \in keys |-> full[k]] :
     keys \in SUBSET {"text", "checked", "quantity"},
     full \in {[text |-> "rice", checked |-> c, quantity |-> 3] : c \in BOOLEAN}}

\* itemHandlers.onToggle / onEditSave / onQuantityChange and the item intents
UpdateItemCall(itemId, data) ==
  /\ op = Idle
  /\ state.user # "" /\ state.currentListId # 0
  /\ updateItem(state.currentListId, itemId, data, getUserLabel(state.user))
  /\ UNCHANGED <<usedIds, clock, state, op, batchLog, issued, created, lastMove, swapCall, raised, calls, tasks, peer, voice>>

NextSpec ==
  \/ Tick
  \/ SnapshotsDelivered /\ Len(created) < MaxPatchItems /\ NewItemSubmit("milk", {0}, {Len(created) + 1})
  \/ SnapshotsDelivered
       /\ \E n \in 1..Len(state.items), d \in UpdateInputs : UpdateItemCall(state.items[n].id, d)
  \/ ItemsSnapshot

Spec == InitSpec /\ [][NextSpec]_vars

\* ------------------------------------------------------------------- C7
\* C7: updateItem writes only the keys present in the call plus updatedAt and
\* updatedByName; afterwards the item holds the values of the call under those keys and
\* every other stored key (text, checked, quantity, unit, order, createdAt, createdBy
\* when not in the call) with the value it had before; an omitted key is never written.
C7_UpdateItemIsPartialPatch ==
  (lastUpdate.kind = "updateItem" /\ lastUpdate.before # NoDoc) =>
    LET doc == items[lastUpdate.listId][lastUpdate.id]
        data == lastUpdate.data
        before == lastUpdate.before
    IN /\ DOMAIN lastUpdate.payload = DOMAIN data \cup {"updatedAt", "updatedByName"}
       /\ DOMAIN doc = DOMAIN before \cup DOMAIN lastUpdate.payload
       /\ \A k \in DOMAIN data : doc[k] = data[k]
       /\ \A k \in DOMAIN before \ (DOMAIN data \cup {"updatedAt", "updatedByName"}) :
            doc[k] = before[k]

\* updateItem(listId, id, {quantity: 3}) on an item that was renamed and checked before
C7_Witness ==
  /\ lastUpdate.kind = "updateItem"
  /\ lastUpdate.before # NoDoc
  /\ DOMAIN lastUpdate.data = {"quantity"}
  /\ lastUpdate.before.quantity = 1
  /\ lastUpdate.before.text = "rice"
  /\ lastUpdate.before.checked
  /\ items[lastUpdate.listId][lastUpdate.id].quantity = 3

\* ---------------------------------------------- bulk operations: C1, C2, C8, C9, C10
\* the operation in flight has read its documents
HasRead == op.kind \notin {"idle"} /\ op.pc \notin {"getDocs"}
          /\ ~(op.pc = "rejected" /\ op.error.call = "getDocs")

\* ids of the chunks committed so far
committedIds(o) == {o.ids[n] : n \in 1..Min(o.k * BatchLimit, Len(o.ids))}

\* the decoded fields of a stored item the claims compare
itemView(data) ==
  [text |-> IF "text" \in DOMAIN data THEN data.text ELSE "",
   checked |-> IF "checked" \in DOMAIN data THEN data.checked ELSE FALSE,
   quantity |-> resolveQuantity(data).quantity,
   order |-> resolveOrder(data, clock).order]

\* C1: deleteListWithItems with keepItems = true, whatever default list id is passed:
\* on completion the source list document is gone, its items subcollection is empty and
\* every item it held exists under the default list with the same text, checked,
\* quantity and order.
C1_KeepItemsMigratesEveryItem ==
  (op.kind = "deleteListWithItems" /\ op.keepItems /\ op.pc = "resolved") =>
    /\ op.listId \notin DOMAIN lists
    /\ items[op.listId] = <<>>
    /\ \A i \in DOMAIN op.data :
         /\ i \in DOMAIN items[op.defaultListId]
         /\ itemView(items[op.defaultListId][i]) = itemView(op.data[i])

\* C2: deleteListWithItems with keepItems = false: on completion the list document does
\* not exist and none of the items it held exists under any list.
C2_DeleteRemovesListAndItems ==
  (op.kind = "deleteListWithItems" /\ ~op.keepItems /\ op.pc = "resolved") =>
    /\ op.listId \notin DOMAIN lists
    /\ \A l \in ListIds : \A i \in DOMAIN op.data : i \notin DOMAIN items[l]

\* a list of more than one chunk has been deleted together with its items
C2_Witness ==
  /\ op.kind = "deleteListWithItems" /\ ~op.keepItems /\ op.pc = "resolved"
  /\ Len(op.ids) > BatchLimit
  /\ op.listId \notin DOMAIN lists

\* C8: every committed batch holds at most 400 operations (set, update and delete each
\* counted as one).
C8_BatchesWithinLimit ==
  \A n \in 1..Len(batchLog) : batchLog[n].size <= BatchLimit

\* C9: the chunks are committed in sequence, each after the previous one succeeded; when
\* the commit of chunk k fails the operation rejects with that error, chunks 1..k-1 stay
\* committed, no later chunk is committed and the trailing touchList is not performed.
C9_ChunksInSequenceAndFailureStops ==
  /\ Len(batchLog) = (IF op.kind = "idle" THEN 0 ELSE op.k)
  /\ \A n \in 1..Len(batchLog) : batchLog[n].chunk = n /\ batchLog[n].op = op.kind
  /\ HasRead =>
       /\ \A i \in DOMAIN op.data \ committedIds(op) :
            i \in DOMAIN items[op.listId] /\ items[op.listId][i] = op.data[i]
       /\ \A i \in committedIds(op) :
            IF op.kind = "updateAllItems"
              THEN i \in DOMAIN items[op.listId] /\ items[op.listId][i].checked = op.checked
              ELSE i \notin DOMAIN items[op.listId]
  /\ (op.kind # "idle" /\ op.pc = "rejected" /\ op.error.call = "commit") =>
       /\ op.error = storeError("commit", op.k + 1)
       /\ op.k < Len(batchesOf(op))
       /\ ~op.touched
       /\ op.listId \in DOMAIN lists /\ lists[op.listId].updatedAt < clock

\* the commit of the second chunk failed after the first one was committed
C9_Witness ==
  /\ op.kind \in BulkKinds /\ op.pc = "rejected"
  /\ op.error = storeError("commit", 2)
  /\ Len(batchLog) = 1
  /\ Len(batchesOf(op)) > 2

\* C10: deleteListWithItems deletes the list document only after every item chunk has
\* committed: whenever the list document is gone all items the operation read are gone
\* from the list, and when a chunk commit fails the list document still exists.
C10_ListDeletedAfterItems ==
  (op.kind = "deleteListWithItems") =>
    /\ (HasRead /\ op.listId \notin DOMAIN lists) =>
         /\ op.k = Len(batchesOf(op))
         /\ \A i \in DOMAIN op.data : i \notin DOMAIN items[op.listId]
    /\ (op.pc = "rejected" /\ op.error.call = "commit") => op.listId \in DOMAIN lists
    /\ ~HasRead => op.listId \in DOMAIN lists

\* a chunk commit of deleteListWithItems failed with part of the items already deleted
C10_Witness ==
  /\ op.kind = "deleteListWithItems" /\ op.pc = "rejected"
  /\ op.error.call = "commit" /\ op.k >= 1
  /\ op.listId \in DOMAIN lists

\* ------------------------------------------------------------------ C11
\* C11: the copy of an item that deleteListWithItems writes under the default list keeps
\* the original createdAt and createdBy (the original creator, whoever deletes the list);
\* only updatedAt and updatedByName carry the stamp of the deleting user.
C11_MigrationKeepsCreator ==
  (op.kind = "deleteListWithItems" /\ op.keepItems /\ HasRead
     /\ op.defaultListId # 0 /\ op.defaultListId # op.listId) =>
    \A i \in committedIds(op) :
      /\ i \in DOMAIN items[op.defaultListId]
      /\ items[op.defaultListId][i].createdAt = op.data[i].createdAt
      /\ items[op.defaultListId][i].createdBy = op.data[i].createdBy
      /\ items[op.defaultListId][i].updatedAt = clock
      /\ items[op.defaultListId][i].updatedByName = op.userName

\* ------------------------------------------------------------------ C17
\* the keys of an item that updateAllItems must leave alone
keptByUpdateAll(data) ==
  [k \in DOMAIN data \ {"checked", "updatedAt", "updatedByName"} |-> data[k]]

\* C17: updateAllItems(listId, checked), completed with no other writer: every item of
\* the list has checked equal to the argument, no item was created or deleted, and text,
\* quantity, order, createdAt and createdBy of every item are unchanged.
C17_UpdateAllSetsCheckedOnly ==
  (op.kind = "updateAllItems" /\ op.pc = "resolved") =>
    /\ DOMAIN items[op.listId] = DOMAIN op.data
    /\ \A i \in DOMAIN op.data :
         /\ items[op.listId][i].checked = op.checked
         /\ keptByUpdateAll(items[op.listId][i]) = keptByUpdateAll(op.data[i])
         /\ {"text", "quantity", "order", "createdAt", "createdBy"}
              \subseteq DOMAIN keptByUpdateAll(op.data[i])

\* every item of a list of more than one chunk has been checked, some were unchecked before
C17_Witness ==
  /\ op.kind = "updateAllItems" /\ op.pc = "resolved" /\ op.checked
  /\ Len(op.ids) > BatchLimit
  /\ \E i \in DOMAIN op.data : ~op.data[i].checked /\ items[op.listId][i].checked
  /\ \E i \in DOMAIN op.data : op.data[i].text = "rice" /\ op.data[i].quantity = 3

\* ------------------------------------------------------------------ C18
\* C18: clearCheckedItems deletes exactly the checked items of the list and leaves every
\* unchecked item in place with all its fields; clearAllItems deletes every item of the
\* list; neither deletes the list document nor touches the items of another list.
C18_ClearDeletesMatchingItemsOnly ==
  /\ [](op.kind = "clearCheckedItems" /\ op.pc = "resolved" =>
          /\ DOMAIN items[op.listId] = {i \in DOMAIN op.data : ~op.data[i].checked}
          /\ \A i \in DOMAIN items[op.listId] : items[op.listId][i] = op.data[i])
  /\ [](op.kind = "clearAllItems" /\ op.pc = "resolved" => items[op.listId] = <<>>)
  /\ [][op.kind \in {"clearCheckedItems", "clearAllItems"} =>
          /\ DOMAIN lists' = DOMAIN lists
          /\ \A l \in ListIds \ {op.listId} : items'[l] = items[l]]_vars

\* clearCheckedItems has removed the checked items of a list and kept the unchecked ones,
\* and the other list still holds its item
C18_Witness ==
  /\ op.kind = "clearCheckedItems" /\ op.pc = "resolved"
  /\ \E i \in DOMAIN op.data : op.data[i].checked
  /\ items[op.listId] # <<>>
  /\ \E l \in ListIds \ {op.listId} : items[l] # <<>>

\* ============================================ specification SpecBackfill
\* backfill runs over a collection that holds records written by older versions of the
\* client (no order, no quantity) next to current ones

\* the document without the given keys
without(data, keys) == [k \in DOMAIN data \ keys |-> data[k]]

\* an item created at millisecond t: by the current client, or by one that stored no
\* order, no quantity, or neither
ItemShapes ==
  {without(newItemDoc("milk", "ann", "ann", t, rnd), dropped) :
     t \in 1..MaxClock, rnd \in RandomFractions,
     dropped \in {{}, {"quantity"}, {"order"},
                  {"order", "quantity", "createdByName", "updatedByName"}}}

\* a list created at millisecond t, by the current client or by one that stored no order
ListShapes(isDefault) ==
  {without(newListDoc(IF isDefault THEN "Inbox" ELSE "Shop", "ann", "ann", isDefault, t, rnd),
           dropped) :
     t \in 1..MaxClock, rnd \in RandomFractions,
     dropped \in {{}, {"order"}, {"order", "createdByName", "updatedByName"}}}

\* either the items of the Inbox or the lists are of mixed age
InitBackfill ==
  /\ \/ /\ lists = (1 :> newListDoc("Inbox", "ann", "ann", TRUE, 1, 0))
        /\ \E n \in 0..MaxItems : \E coll \in [1..n -> ItemShapes] :
             /\ items = [l \in ListIds |-> IF l = 1 THEN coll ELSE <<>>]
             /\ usedIds = [lists |-> {1}, items |-> 1..n, hi |-> n]
     \/ /\ \E n \in 1..MaxLists : \E ls \in [1..n -> ListShapes(TRUE) \cup ListShapes(FALSE)] :
             /\ \A l \in 1..n : ls[l].isDefault = (l = 1)
             /\ lists = ls
             /\ usedIds = [lists |-> 1..n, items |-> {}, hi |-> 0]
        /\ items = EmptyStore
  /\ clock = MaxClock + 1
  /\ state = [user |-> "bob", currentListId |-> 1, items |-> <<>>,
              editingItemId |-> 0, backfilledItemLists |-> {}]
              @@ itemsListening(1, 0)
  /\ op = Idle
  /\ batchLog = <<>>
  /\ issued = <<>>
  /\ created = <<>>
  /\ lastMove = None
  /\ lastUpdate = None
  /\ swapCall = None
  /\ raised = None
  /\ calls = <<>>
  /\ tasks = {}
  /\ peer = None
  /\ voice = None

\* backfillItemOrder(listId, userName) / backfillListOrder(userName) is called
CallBackfill(kind, l, userId) ==
  /\ op = Idle
  /\ Len(calls) < MaxRuns
  /\ op' = newOp(kind, l, userId, FALSE, 0, FALSE)
  /\ batchLog' = <<>>
  /\ UNCHANGED <<lists, items, usedIds, clock, state, issued, created,
                 lastMove, lastUpdate, swapCall, raised, calls, tasks, peer, voice>>

NextBackfill ==
  \/ \E kind \in BackfillKinds : CallBackfill(kind, state.currentListId, state.user)
  \/ OpGetDocs
  \/ OpCommitChunk
  \/ OpFinal
  \/ OpStoreFails
  \/ OpReturn

SpecBackfill == InitBackfill /\ [][NextBackfill]_vars

\* ------------------------------------------------------------------ C12
\* the record lacks a field the run is there to fill
missesField(kind, data) ==
  "order" \notin DOMAIN data \/ (kind = "backfillItemOrder" /\ "quantity" \notin DOMAIN data)

\* C12: backfill is idempotent: a run of backfillItemOrder or backfillListOrder over a
\* scope in which no record is missing order or quantity issues zero writes (no batch
\* commit, no touchList), and a run that follows a completed run of the same engine, with
\* no other writer, issues zero writes.
C12_BackfillIdempotent ==
  /\ (op.kind \in BackfillKinds /\ HasRead
        /\ \A i \in DOMAIN op.data : ~missesField(op.kind, op.data[i])) =>
       /\ op.pc = "resolved"
       /\ batchLog = <<>>
       /\ ~op.touched
       /\ scopeOf(op.kind, op.listId) = op.data
  /\ \A n \in 2..Len(calls) :
       (calls[n - 1].result = "resolved" /\ calls[n - 1].kind = calls[n].kind) =>
         calls[n].writes = 0 /\ ~calls[n].touched

\* a run that wrote was followed by a run of the same engine that wrote nothing
C12_Witness ==
  /\ Len(calls) = 2
  /\ calls[1].kind = "backfillItemOrder" /\ calls[2].kind = "backfillItemOrder"
  /\ calls[1].result = "resolved" /\ calls[1].writes > 0 /\ calls[1].touched
  /\ calls[2].result = "resolved" /\ calls[2].writes = 0

\* ------------------------------------------------------------------ C13
\* 0-based position of record i among the records of the scope that lack order, sorted by
\* createdAt ascending (records with the same createdAt in the order of the read)
rankAmongOrderless(data, i) ==
  Cardinality({j \in DOMAIN data :
                 /\ "order" \notin DOMAIN data[j]
                 /\ \/ data[j].createdAt < data[i].createdAt
                    \/ (data[j].createdAt = data[i].createdAt /\ j < i)})

\* C13: a completed run has assigned to each record that lacked order the value createdAt
\* in milliseconds + index, index being the record's position among the records that
\* lacked order sorted by createdAt; the assigned orders are strictly increasing in that
\* sequence; items that lacked only quantity got quantity 1.
C13_BackfillAssignsCreatedAtPlusIndex ==
  (op.kind \in BackfillKinds /\ op.pc = "resolved") =>
    LET now == scopeOf(op.kind, op.listId) IN
    /\ \A i \in DOMAIN op.data :
         "order" \notin DOMAIN op.data[i] =>
           now[i].order = (op.data[i].createdAt + rankAmongOrderless(op.data, i)) * OrderUnit
    /\ \A i, j \in DOMAIN op.data :
         ("order" \notin DOMAIN op.data[i] /\ "order" \notin DOMAIN op.data[j]
            /\ rankAmongOrderless(op.data, i) < rankAmongOrderless(op.data, j))
           => now[i].order < now[j].order
    /\ \A i \in DOMAIN op.data :
         (op.kind = "backfillItemOrder" /\ "quantity" \notin DOMAIN op.data[i]) =>
           /\ now[i].quantity = 1
           /\ "order" \in DOMAIN op.data[i] => now[i].order = op.data[i].order

\* ------------------------------------------------------------------ C14
\* C14: backfill keeps the existing ordering: when record x sorted strictly before record
\* y before the run (by stored order, or by createdAt in milliseconds for a record
\* lacking order), x's stored order is strictly less than y's after the run.
C14_BackfillKeepsOrdering ==
  (op.kind \in BackfillKinds /\ op.pc = "resolved") =>
    LET now == scopeOf(op.kind, op.listId) IN
    \A x, y \in DOMAIN op.data :
      resolveOrder(op.data[x], clock).order < resolveOrder(op.data[y], clock).order
        => now[x].order < now[y].order

\* ================================================ specification SpecRepo
\* every repository mutation, await by await, called by the handlers of one client on a
\* store that holds a list with a current item and an item of an earlier client

\* the mutations that start with a single write (addDoc, updateDoc, deleteDoc or the commit
\* of one batch) and those among them that end with touchList
SimpleKinds == {"createList", "updateList", "createItem", "updateItem", "deleteItem",
                "persistListOrder", "persistItemOrder"}

\* where a simple mutation continues after its write
afterWrite(o) ==
  IF o.kind \in {"createItem", "updateItem", "deleteItem", "persistItemOrder"}
    THEN "final" ELSE "resolved"

\* { id: updatedCurrent.id, order: updatedCurrent.order }: what a move handler passes on
orderEntry(rec) == [id |-> rec.id, order |-> rec.order]

\* the batch of persistListOrder (list documents are addressed as <<0, list id>>) and of
\* persistItemOrder
orderBatch(o) ==
  LET scope == IF o.kind = "persistListOrder" THEN 0 ELSE o.listId
      entries == o.args.updates
  IN [r \in {<<scope, entries[n].id>> : n \in DOMAIN entries} |->
        LET last == CHOOSE n \in DOMAIN entries :
                      entries[n].id = r[2] /\ \A m \in (n + 1)..Len(entries) : entries[m].id # r[2]
        IN <<[ref |-> r, type |-> "update",
              data |-> orderPayload(entries[last], o.userName, clock)]>>]

\* the first await of a simple mutation
OpWrite ==
  /\ op.pc = "write"
  /\ \/ /\ op.kind = "createList"
        /\ \E id \in ListIds \ usedIds.lists :
             /\ createList(id, op.args.name, op.userId, op.userName, op.args.isDefault, 0)
             /\ op' = [op EXCEPT !.pc = afterWrite(op), !.result = id]
        /\ UNCHANGED <<items, created, batchLog, raised>>
     \/ /\ op.kind = "updateList"
        /\ IF op.listId \in DOMAIN lists
             THEN /\ lists' = updateDoc(lists, op.listId,
                                        [name |-> op.args.name, updatedByName |-> op.userName,
                                         updatedAt |-> clock])
                  /\ op' = [op EXCEPT !.pc = afterWrite(op)]
                  /\ UNCHANGED raised
             ELSE /\ op' = rejected(op, storeError("write", 0))
                  /\ raised' = storeError("write", 0)
                  /\ UNCHANGED lists
        /\ UNCHANGED <<items, usedIds, issued, created, batchLog>>
     \/ /\ op.kind = "createItem"
        /\ LET id == usedIds.hi + 1 IN
             /\ items' = [items EXCEPT ![op.listId] =
                            setDoc(@, id, newItemDoc(op.args.text, op.userId, op.userName, clock, 0))]
             /\ usedIds' = [usedIds EXCEPT !.items = @ \cup {id}, !.hi = id]
             /\ issued' = Append(issued, makeOrder(clock, 0))
             /\ created' = Append(created, [id |-> id, order |-> makeOrder(clock, 0)])
        /\ op' = [op EXCEPT !.pc = afterWrite(op)]
        /\ UNCHANGED <<lists, batchLog, raised>>
     \/ /\ op.kind = "updateItem"
        /\ IF op.args.id \in DOMAIN items[op.listId]
             THEN /\ items' = [items EXCEPT ![op.listId] =
                                 updateDoc(@, op.args.id,
                                           updateItemPayload(op.args.data, op.userName, clock))]
                  /\ op' = [op EXCEPT !.pc = afterWrite(op)]
                  /\ UNCHANGED raised
             ELSE /\ op' = rejected(op, storeError("write", 0))
                  /\ raised' = storeError("write", 0)
                  /\ UNCHANGED items
        /\ UNCHANGED <<lists, usedIds, issued, created, batchLog>>
     \/ /\ op.kind = "deleteItem"
        /\ items' = [items EXCEPT ![op.listId] = deleteDoc(@, op.args.id)]
        /\ op' = [op EXCEPT !.pc = afterWrite(op)]
        /\ UNCHANGED <<lists, usedIds, issued, created, batchLog, raised>>
     \/ /\ op.kind \in {"persistListOrder", "persistItemOrder"}
        /\ LET batch == orderBatch(op)
               docs == IF op.kind = "persistListOrder" THEN (0 :> lists) ELSE items
           IN IF batchOk(docs, batch)
                THEN /\ IF op.kind = "persistListOrder"
                          THEN lists' = applyBatch(docs, batch)[0] /\ UNCHANGED items
                          ELSE items' = applyBatch(docs, batch) /\ UNCHANGED lists
                     /\ batchLog' = Append(batchLog, [op |-> op.kind, chunk |-> 1,
                                                      size |-> batchSize(batch)])
                     /\ op' = [op EXCEPT !.pc = afterWrite(op)]
                     /\ UNCHANGED raised
                ELSE /\ op' = rejected(op, storeError("write", 0))
                     /\ raised' = storeError("write", 0)
                     /\ UNCHANGED <<lists, items, batchLog>>
        /\ UNCHANGED <<usedIds, issued, created>>
  /\ UNCHANGED <<clock, state, lastMove, lastUpdate, swapCall, calls, tasks, peer, voice>>

\* a handler of the signed-in client calls a simple mutation and awaits it
RepoCall(kind, listId, args) ==
  /\ op = Idle
  /\ state.user # ""
  /\ op' = [newOp(kind, listId, state.user, FALSE, 0, FALSE) EXCEPT !.pc = "write", !.args = args]
  /\ batchLog' = <<>>
  /\ UNCHANGED <<lists, items, usedIds, clock, issued, created,
                 lastMove, lastUpdate, swapCall, raised, calls, tasks, peer, voice>>

\* newListForm submit handler
OnNewListSubmit(name) ==
  /\ RepoCall("createList", 0, [name |-> name, isDefault |-> FALSE])
  /\ UNCHANGED state

\* editListForm / renameListForm submit handlers
OnRenameListSubmit(name) ==
  /\ state.currentListId # 0
  /\ RepoCall("updateList", state.currentListId, [name |-> name])
  /\ UNCHANGED state

\* newItemForm submit handler
OnNewItemSubmit(text) ==
  /\ state.currentListId # 0
  /\ RepoCall("createItem", state.currentListId, [text |-> text])
  /\ UNCHANGED state

\* itemHandlers.onToggle / onEditSave / onQuantityChange
OnItemChange(itemId, data) ==
  /\ state.currentListId # 0
  /\ RepoCall("updateItem", state.currentListId, [id |-> itemId, data |-> data])
  /\ UNCHANGED state

\* itemHandlers.onDelete
OnDelete(itemId) ==
  /\ state.currentListId # 0
  /\ RepoCall("deleteItem", state.currentListId, [id |-> itemId])
  /\ UNCHANGED state

\* listHandlers.onMoveList
OnMoveList(listId, direction) ==
  LET index == findIndex(state.lists, listId)
      targetIndex == IF direction = "up" THEN index - 1 ELSE index + 1
  IN /\ index >= 1
     /\ targetIndex >= 1 /\ targetIndex <= Len(state.lists)
     /\ LET current == state.lists[index]
            target == state.lists[targetIndex]
            orders == swapOrders(current.order, target.order, direction)
            updatedCurrent == [current EXCEPT !.order = orders.current]
            updatedTarget == [target EXCEPT !.order = orders.target]
        IN /\ state' = [state EXCEPT !.lists =
                          [@ EXCEPT ![index] = updatedTarget, ![targetIndex] = updatedCurrent]]
           /\ RepoCall("persistListOrder", 0,
                       [updates |-> <<orderEntry(updatedCurrent), orderEntry(updatedTarget)>>])

\* itemHandlers.onMoveItem, its persistItemOrder call followed await by await
OnMoveItemCall(itemId, direction) ==
  LET index == findIndex(state.items, itemId)
      targetIndex == IF direction = "up" THEN index - 1 ELSE index + 1
  IN /\ state.currentListId # 0
     /\ index >= 1
     /\ targetIndex >= 1 /\ targetIndex <= Len(state.items)
     /\ LET current == state.items[index]
            target == state.items[targetIndex]
            orders == swapOrders(current.order, target.order, direction)
            updatedCurrent == [current EXCEPT !.order = orders.current]
            updatedTarget == [target EXCEPT !.order = orders.target]
        IN /\ state' = [state EXCEPT !.items =
                          [@ EXCEPT ![index] = updatedTarget, ![targetIndex] = updatedCurrent]]
           /\ RepoCall("persistItemOrder", state.currentListId,
                       [updates |-> <<orderEntry(updatedCurrent), orderEntry(updatedTarget)>>])

\* the Inbox and the list "Shop", which is selected and holds a current item and an item
\* of any age; the snapshots of both collections have been delivered
InitRepo ==
  /\ lists = (1 :> newListDoc("Inbox", "ann", "ann", TRUE, 1, 0))
               @@ (2 :> newListDoc("Shop", "ann", "ann", FALSE, 2, 0))
  /\ \E old \in ItemShapes :
       items = [l \in ListIds |->
                  IF l = 2 THEN (1 :> newItemDoc("milk", "ann", "ann", 1, 0)) @@ (2 :> old)
                  ELSE <<>>]
  /\ usedIds = [lists |-> {1, 2}, items |-> {1, 2}, hi |-> 2]
  /\ clock = MaxClock + 1
  /\ state = [user |-> "bob", currentListId |-> 2, items |-> mapItems(items[2], clock),
              lists |-> mapList(lists, clock), editingItemId |-> 0,
              backfilledItemLists |-> {2}]
             @@ itemsListening(2, 2)
  /\ op = Idle
  /\ batchLog = <<>>
  /\ issued = <<>>
  /\ created = <<>>
  /\ lastMove = None
  /\ lastUpdate = None
  /\ swapCall = None
  /\ raised = None
  /\ calls = <<>>
  /\ tasks = {}
  /\ peer = None
  /\ voice = None

\* the arguments the item handlers pass to updateItem
ItemChanges == {[checked |-> TRUE], [text |-> "rice"], [quantity |-> 3]}

NextRepo ==
  \/ /\ Len(calls) < MaxCalls
     /\ \/ OnNewListSubmit("Shop")
        \/ OnRenameListSubmit("Market")
        \/ OnNewItemSubmit("milk")
        \/ \E i \in SmallItemIds, d \in ItemChanges : OnItemChange(i, d)
        \/ \E i \in SmallItemIds : OnDelete(i)
        \/ \E l \in ListIds, d \in Directions : OnMoveList(l, d)
        \/ \E i \in SmallItemIds, d \in Directions : OnMoveItemCall(i, d)
        \/ \E keep \in BOOLEAN : CallDeleteListWithItems(state.currentListId, keep, state.user)
        \/ \E kind \in BulkKinds, checked \in BOOLEAN :
             /\ (kind # "updateAllItems" => ~checked)
             /\ CallBulk(kind, state.currentListId, checked, state.user)
  \/ OpWrite
  \/ OpGetDocs
  \/ OpEnsureDefault
  \/ OpCommitChunk
  \/ OpFinal
  \/ OpStoreFails
  \/ OpReturn

SpecRepo == InitRepo /\ [][NextRepo]_vars

\* ------------------------------------------------------------------ C19
\* C19: every repository and bulk mutation rejects with exactly the store's error whenever
\* one of its store calls fails: a raised error is never swallowed, replaced or turned
\* into a successful result, and a mutation rejects for no other reason.
C19_StoreErrorsPropagate ==
  /\ op.kind # "idle" =>
       /\ (raised # None) <=> (op.pc = "rejected")
       /\ op.pc = "rejected" => op.error = raised
       /\ op.pc = "resolved" => op.error = None
  /\ op.kind = "idle" => raised = None
  /\ \A n \in 1..Len(calls) :
       calls[n].result = "rejected" <=> calls[n].error # None

\* createItem rejected with the error of its touchList after the item was added
C19_Witness ==
  /\ op.kind = "createItem" /\ op.pc = "rejected"
  /\ op.error = storeError("final", 0) /\ raised = storeError("final", 0)
  /\ 3 \in DOMAIN items[op.listId]

freshClient ==
  [user |-> "", lists |-> <<>>, items |-> <<>>, currentListId |-> 0, storedListId |-> 0,
   listsLoaded |-> FALSE, ensureDefaultInFlight |-> FALSE, editingItemId |-> 0,
   backfillListsInFlight |-> FALSE, backfilledItemLists |-> {}]
  @@ itemsListening(0, 0)

\* subscribeToItems that registers the new listener without closing the previous one
subscribeToItems_keepsListener(st) ==
  LET h == CHOOSE k \in 1..(Cardinality(st.listeners) + 1) :
                \A l \in st.listeners : l.h # k
  IN [st EXCEPT !.listeners = IF st.currentListId = 0 THEN @
                                ELSE @ \cup {[h |-> h, listId |-> st.currentListId]},
                !.unsubscribeItems = IF st.currentListId = 0 THEN @ ELSE h,
                !.lastSwitch = [hadListener |-> st.unsubscribeItems # 0, calls |-> 0],
                !.items = <<>>,
                !.itemsOf = 0]

\* subscribeToItems: the previous listener, if any, is unsubscribed and forgotten, then
\* a listener for the current list is registered; its snapshots arrive as later events
subscribeToItems(st) ==
  LET live == {l \in st.listeners : l.h # st.unsubscribeItems}
      h == CHOOSE k \in 1..(Cardinality(live) + 1) : \A l \in live : l.h # k
  IN [st EXCEPT !.listeners = IF st.currentListId = 0 THEN live
                                ELSE live \cup {[h |-> h, listId |-> st.currentListId]},
                !.unsubscribeItems = IF st.currentListId = 0 THEN 0 ELSE h,
                !.lastSwitch = [hadListener |-> st.unsubscribeItems # 0,
                                calls |-> IF st.unsubscribeItems # 0 THEN 1 ELSE 0],
                !.items = <<>>,
                !.itemsOf = 0]

\* setActiveList
setActiveList(st, listId) ==
  subscribeToItems([st EXCEPT !.currentListId = listId, !.storedListId = listId,
                              !.items = <<>>, !.editingItemId = 0])

\* state.lists.find((list) => list.isDefault)?.id, 0 when there is none
defaultOf(decoded) ==
  IF \E n \in DOMAIN decoded : decoded[n].isDefault
    THEN decoded[CHOOSE n \in DOMAIN decoded :
                   decoded[n].isDefault /\ \A m \in 1..(n - 1) : ~decoded[m].isDefault].id
    ELSE 0

\* state.lists.find((list) => list.id === id) finds a list
hasList(decoded, id) == \E n \in DOMAIN decoded : decoded[n].id = id

\* the guards of maybeEnsureDefaultList
ensureDefaultDue(st) ==
  /\ st.user # "" /\ st.listsLoaded /\ ~st.ensureDefaultInFlight
  /\ ~\E n \in DOMAIN st.lists : st.lists[n].isDefault

\* maybeEnsureDefaultList of client c; n is the number of the next call launched
maybeEnsureDefaultList(st, c, n) ==
  IF ensureDefaultDue(st)
    THEN [st |-> [st EXCEPT !.ensureDefaultInFlight = TRUE],
          launch |-> {newTask(n, "ensureDefaultListId", c, 0, st.user)}]
    ELSE [st |-> st, launch |-> {}]

\* the guards of maybeBackfillListOrder
listBackfillDue(st) ==
  /\ st.user # "" /\ ~st.backfillListsInFlight
  /\ \E n \in DOMAIN st.lists : st.lists[n].orderMissing

\* maybeBackfillListOrder of client c
maybeBackfillListOrder(st, c, n) ==
  IF listBackfillDue(st)
    THEN [st |-> [st EXCEPT !.backfillListsInFlight = TRUE],
          launch |-> {newTask(n, "backfillListOrder", c, 0, st.user)}]
    ELSE [st |-> st, launch |-> {}]

\* the callback of subscribeLists, given the decoded snapshot
onListsSnapshot(st, c, decoded, n) ==
  LET st1 == [st EXCEPT !.lists = decoded, !.listsLoaded = TRUE]
      fallback == IF defaultOf(decoded) # 0 THEN defaultOf(decoded)
                  ELSE IF decoded # <<>> THEN decoded[1].id ELSE 0
      st2 == IF st.currentListId = 0
               THEN setActiveList(st1, IF st.storedListId # 0 /\ hasList(decoded, st.storedListId)
                                         THEN st.storedListId ELSE fallback)
               ELSE IF ~hasList(decoded, st.currentListId)
                 THEN setActiveList(st1, fallback)
                 ELSE st1
      r1 == maybeEnsureDefaultList(st2, c, n)
      r2 == maybeBackfillListOrder(r1.st, c, n + Cardinality(r1.launch))
  IN [st |-> r2.st, launch |-> r1.launch \cup r2.launch]

\* the callback of onAuthStateChanged
onAuthStateChanged(st, c, user, n) ==
  LET r1 == maybeEnsureDefaultList([st EXCEPT !.user = user], c, n)
      r2 == maybeBackfillListOrder(r1.st, c, n + Cardinality(r1.launch))
  IN [st |-> r2.st, launch |-> r1.launch \cup r2.launch]

\* a lists snapshot that differs from the last one is delivered to client 1
ListsSnapshot ==
  /\ ~state.listsLoaded \/ state.lists # mapList(lists, clock)
  /\ LET r == onListsSnapshot(state, 1, mapList(lists, clock), Cardinality(tasks) + 1)
     IN state' = r.st /\ tasks' = tasks \cup r.launch
  /\ UNCHANGED <<lists, items, usedIds, clock, op, batchLog, issued, created,
                 lastMove, lastUpdate, swapCall, raised, calls, peer, voice>>

\* a lists snapshot that differs from the last one is delivered to client 2
PeerListsSnapshot ==
  /\ ~peer.listsLoaded \/ peer.lists # mapList(lists, clock)
  /\ LET r == onListsSnapshot(peer, 2, mapList(lists, clock), Cardinality(tasks) + 1)
     IN peer' = r.st /\ tasks' = tasks \cup r.launch
  /\ UNCHANGED <<lists, items, usedIds, clock, state, op, batchLog, issued, created,
                 lastMove, lastUpdate, swapCall, raised, calls, voice>>

\* the user of client 1 signs in or out; "if (!state.user) pendingClarification = null"
AuthChange(user) ==
  /\ user # state.user
  /\ LET r == onAuthStateChanged(state, 1, user, Cardinality(tasks) + 1)
     IN state' = r.st /\ tasks' = tasks \cup r.launch
  /\ voice' = IF user = "" /\ "pending" \in DOMAIN voice
                THEN [voice EXCEPT !.pending = FALSE] ELSE voice
  /\ UNCHANGED <<lists, items, usedIds, clock, op, batchLog, issued, created,
                 lastMove, lastUpdate, swapCall, raised, calls, peer>>

\* the user of client 2 signs in or out
PeerAuthChange(user) ==
  /\ user # peer.user
  /\ LET r == onAuthStateChanged(peer, 2, user, Cardinality(tasks) + 1)
     IN peer' = r.st /\ tasks' = tasks \cup r.launch
  /\ UNCHANGED <<lists, items, usedIds, clock, state, op, batchLog, issued, created,
                 lastMove, lastUpdate, swapCall, raised, calls, voice>>

\* listHandlers.onSelectList
SelectList(listId) ==
  /\ hasList(state.lists, listId)
  /\ state' = setActiveList(state, listId)
  /\ UNCHANGED <<lists, items, usedIds, clock, op, batchLog, issued, created,
                 lastMove, lastUpdate, swapCall, raised, calls, tasks, peer, voice>>

\* the handlers of a settled call without the catch of the item backfill
settled_withoutCatch(st, t, outcome) ==
  IF t.kind = "ensureDefaultListId" THEN [st EXCEPT !.ensureDefaultInFlight = FALSE]
  ELSE IF t.kind = "backfillListOrder" THEN [st EXCEPT !.backfillListsInFlight = FALSE]
  ELSE st

\* what the handlers attached to the call do when it settles: ".finally" clears the
\* in-flight flag, ".catch" of the item backfill forgets the list
settled(st, t, outcome) ==
  IF t.kind = "ensureDefaultListId" THEN [st EXCEPT !.ensureDefaultInFlight = FALSE]
  ELSE IF t.kind = "backfillListOrder" THEN [st EXCEPT !.backfillListsInFlight = FALSE]
  ELSE IF outcome = "failed" THEN [st EXCEPT !.backfilledItemLists = @ \ {t.listId}]
  ELSE st

\* the call t moves on to t2; when it settles the handlers of its client run
TaskMoves(t, t2) ==
  /\ tasks' = (tasks \ {t}) \cup {t2}
  /\ IF InFlight(t2) THEN UNCHANGED <<state, peer, voice>>
     ELSE IF t.client = 1 THEN state' = settled(state, t, t2.pc) /\ UNCHANGED peer
     ELSE peer' = settled(peer, t, t2.pc) /\ UNCHANGED state

\* where a launched backfill continues once its chunks are exhausted
taskAfterChunks(t) ==
  IF t.k < Len(chunkDocs(t.ids, BatchLimit)) THEN "commit"
  ELSE IF t.kind = "backfillListOrder" THEN "done"
  ELSE "final"

\* a launched backfill reads its collection
TaskGetDocs(t) ==
  /\ t.pc = "getDocs"
  /\ LET coll == scopeOf(t.kind, t.listId)
         t1 == [t EXCEPT !.ids = backfillMissing(t.kind, coll, clock),
                         !.updates = backfillUpdates(t.kind, coll, clock)]
     IN TaskMoves(t, [t1 EXCEPT !.pc = IF t1.ids = <<>> THEN "done" ELSE taskAfterChunks(t1)])
  /\ UNCHANGED <<lists, items, usedIds, clock, op, batchLog, issued, created,
                 lastMove, lastUpdate, swapCall, raised, calls, voice>>

\* a launched backfill commits its next chunk
TaskCommit(t) ==
  /\ t.pc = "commit"
  /\ LET batch == batchFor(t, chunkDocs(t.ids, BatchLimit)[t.k + 1])
         docs == IF t.kind = "backfillListOrder" THEN (0 :> lists) ELSE items
         t1 == [t EXCEPT !.k = @ + 1]
     IN IF batchOk(docs, batch)
          THEN /\ IF t.kind = "backfillListOrder"
                    THEN lists' = applyBatch(docs, batch)[0] /\ UNCHANGED items
                    ELSE items' = applyBatch(docs, batch) /\ UNCHANGED lists
               /\ TaskMoves(t, [t1 EXCEPT !.pc = taskAfterChunks(t1)])
          ELSE /\ TaskMoves(t, [t EXCEPT !.pc = "failed"])
               /\ UNCHANGED <<lists, items>>
  /\ UNCHANGED <<usedIds, clock, op, batchLog, issued, created,
                 lastMove, lastUpdate, swapCall, raised, calls, voice>>

\* the touchList that ends backfillItemOrder
TaskTouch(t) ==
  /\ t.pc = "final"
  /\ IF t.listId \in DOMAIN lists
       THEN /\ lists' = touchList(lists, t.listId, t.userName, clock)
            /\ TaskMoves(t, [t EXCEPT !.pc = "done"])
       ELSE /\ TaskMoves(t, [t EXCEPT !.pc = "failed"])
            /\ UNCHANGED lists
  /\ UNCHANGED <<items, usedIds, clock, op, batchLog, issued, created,
                 lastMove, lastUpdate, swapCall, raised, calls, voice>>

\* ensureDefaultListId without existingId: createList of the Inbox
TaskCreateList(t) ==
  /\ t.pc = "write"
  /\ \E id \in ListIds \ usedIds.lists : createList(id, "Inbox", t.userId, t.userName, TRUE, 0)
  /\ TaskMoves(t, [t EXCEPT !.pc = "done"])
  /\ UNCHANGED <<items, clock, op, batchLog, created, lastMove, lastUpdate, swapCall,
                 raised, calls, voice>>

\* the store rejects the call a launched call is awaiting
TaskFails(t) ==
  /\ InFlight(t)
  /\ Cardinality({u \in tasks : u.pc = "failed"}) < MaxFailures
  /\ TaskMoves(t, [t EXCEPT !.pc = "failed"])
  /\ UNCHANGED <<lists, items, usedIds, clock, op, batchLog, issued, created,
                 lastMove, lastUpdate, swapCall, raised, calls, voice>>

\* ================================================ specification SpecGuard
\* one client and two lists that hold items of earlier clients: snapshots, list
\* switches and sign-in / sign-out arrive while launched backfill runs are in flight

\* an item created at millisecond 1, by the current client or by an earlier one
OldShapes ==
  {without(newItemDoc("milk", "ann", "ann", 1, 0), dropped) :
     dropped \in {{}, {"quantity"}, {"order", "quantity", "createdByName", "updatedByName"}}}

InitGuard ==
  /\ lists = (1 :> newListDoc("Inbox", "ann", "ann", TRUE, 1, 0))
               @@ (2 :> newListDoc("Shop", "ann", "ann", FALSE, 2, 0))
  /\ \E a \in OldShapes, b \in OldShapes :
       items = [l \in ListIds |->
                  IF l = 1 THEN (1 :> newItemDoc("milk", "ann", "ann", 1, 0)) @@ (2 :> a)
                  ELSE IF l = 2 THEN (3 :> b)
                  ELSE <<>>]
  /\ usedIds = [lists |-> {1, 2}, items |-> {1, 2, 3}, hi |-> 3]
  /\ clock = MaxClock + 1
  /\ state = freshClient
  /\ op = Idle
  /\ batchLog = <<>>
  /\ issued = <<>>
  /\ created = <<>>
  /\ lastMove = None
  /\ lastUpdate = None
  /\ swapCall = None
  /\ raised = None
  /\ calls = <<>>
  /\ tasks = {}
  /\ peer = None
  /\ voice = None

NextGuard ==
  \/ \E user \in {"", "bob"} : AuthChange(user)
  \/ ListsSnapshot
  \/ ItemsSnapshot
  \/ \E l \in ListIds : SelectList(l)
  \/ \E t \in tasks : TaskGetDocs(t)
  \/ \E t \in tasks : TaskCommit(t)
  \/ \E t \in tasks : TaskTouch(t)
  \/ \E t \in tasks : TaskFails(t)

SpecGuard == InitGuard /\ [][NextGuard]_vars

C21_OneItemsListener ==
  /\ Cardinality(state.listeners) <= 1
  /\ state.lastSwitch.calls = IF state.lastSwitch.hadListener THEN 1 ELSE 0
  /\ \A l \in state.listeners : l.listId = state.currentListId /\ l.h = state.unsubscribeItems
  /\ state.itemsOf \in {0, state.currentListId}

\* the client has switched away from a list whose listener was registered, and a snapshot
\* of the list selected now has filled state.items while the other list holds items too
C21_Witness ==
  /\ state.lastSwitch.hadListener
  /\ state.lastSwitch.calls = 1
  /\ state.currentListId = 2
  /\ state.itemsOf = 2
  /\ state.items # <<>>
  /\ mapItems(items[1], clock) # state.items

\* ============================================== specification SpecDefault
\* two signed-in clients on one store: each creates the Inbox when its lists snapshot
\* shows no default list, and client 1 may delete the list it has selected

\* confirmDeleteBtn click handler: deleteListWithItems for the selected list, with the
\* default list of the client's own lists snapshot
OnConfirmDelete(keepItems) ==
  /\ op = Idle
  /\ Len(calls) < MaxCalls
  /\ state.user # ""
  /\ hasList(state.lists, state.currentListId)
  /\ op' = newOp("deleteListWithItems", state.currentListId, state.user, keepItems,
                 defaultOf(state.lists), FALSE)
  /\ batchLog' = <<>>
  /\ UNCHANGED <<lists, items, usedIds, clock, state, issued, created,
                 lastMove, lastUpdate, swapCall, raised, calls, tasks, peer, voice>>

\* the store is empty, or holds one list that is not the default one, with an item
InitDefault ==
  /\ \E n \in 0..1 :
       /\ lists = [l \in 1..n |-> newListDoc("Shop", "ann", "ann", FALSE, 1, 0)]
       /\ items = [l \in ListIds |->
                     IF l <= n THEN (1 :> newItemDoc("milk", "ann", "ann", 1, 0)) ELSE <<>>]
       /\ usedIds = [lists |-> 1..n, items |-> 1..n, hi |-> n]
  /\ clock = MaxClock + 1
  /\ state = freshClient
  /\ peer = freshClient
  /\ op = Idle
  /\ batchLog = <<>>
  /\ issued = <<>>
  /\ created = <<>>
  /\ lastMove = None
  /\ lastUpdate = None
  /\ swapCall = None
  /\ raised = None
  /\ calls = <<>>
  /\ tasks = {}
  /\ voice = None

NextDefault ==
  \/ \E user \in {"", "bob"} : AuthChange(user)
  \/ PeerAuthChange("eve")
  \/ ListsSnapshot
  \/ PeerListsSnapshot
  \/ \E t \in tasks : TaskCreateList(t)
  \/ \E keepItems \in BOOLEAN : OnConfirmDelete(keepItems)
  \/ OpGetDocs
  \/ OpEnsureDefault
  \/ OpCommitChunk
  \/ OpFinal
  \/ OpReturn

SpecDefault == InitDefault /\ [][NextDefault]_vars

\* the client is signed in and its lists snapshot shows the store as it is
upToDate(st) == st.user # "" /\ st.listsLoaded /\ st.lists = mapList(lists, clock)

\* nobody is operating: no repository call and no launched call is in flight, and both
\* clients have been delivered the present lists
Quiet ==
  /\ op = Idle
  /\ \A t \in tasks : ~InFlight(t)
  /\ upToDate(state)
  /\ upToDate(peer)

\* ------------------------------------------------------------------ C16
\* C16: once operations have stopped and every call in flight has finished, exactly one
\* list has isDefault = true, whatever the interleaving of the Inbox creation of two
\* clients, and of maybeEnsureDefaultList with deleteListWithItems on one client.
C16_OneDefaultListWhenQuiet ==
  Quiet => Cardinality({l \in DOMAIN lists : lists[l].isDefault}) = 1

(***************************************************************************)
(* Voice control.  Text that the voice pipeline inspects character by      *)
(* character (transcripts, item texts, units) is a sequence of             *)
(* one-character strings; ids are the numbers of the store, 0 standing for *)
(* the empty string; a field that is undefined is absent from the record.  *)
(***************************************************************************)

Milk == <<"m", "i", "l", "k">>
Rice == <<"r", "i", "c", "e">>
Bread == <<"b", "r", "e", "a", "d">>
Kg == <<"k", "g">>
Blank == <<" ">>

UpperCase == <<"A", "B", "C", "D", "E", "F", "G", "H", "I", "J", "K", "L", "M",
               "N", "O", "P", "Q", "R", "S", "T", "U", "V", "W", "X", "Y", "Z">>
LowerCase == <<"a", "b", "c", "d", "e", "f", "g", "h", "i", "j", "k", "l", "m",
               "n", "o", "p", "q", "r", "s", "t", "u", "v", "w", "x", "y", "z">>
DigitChars == {"0", "1", "2", "3", "4", "5", "6", "7", "8", "9"}
LetterChars == {UpperCase[i] : i \in 1..26} \cup {LowerCase[i] : i \in 1..26}

\* the lower-case letter of each upper-case letter
lowerCaseOf ==
  [c \in {UpperCase[k] : k \in 1..26} |-> LowerCase[CHOOSE k \in 1..26 : UpperCase[k] = c]]

\* String.prototype.toLowerCase
toLowerCase(t) ==
  [i \in DOMAIN t |-> IF t[i] \in DOMAIN lowerCaseOf THEN lowerCaseOf[t[i]] ELSE t[i]]

\* String.prototype.trim
trim(t) ==
  LET solid == {i \in DOMAIN t : t[i] # " "}
  IN IF solid = {} THEN <<>>
     ELSE SubSeq(t, CHOOSE i \in solid : \A j \in solid : i <= j,
                    CHOOSE i \in solid : \A j \in solid : i >= j)

\* String.prototype.includes
includes(t, sub) ==
  \E i \in 0..(Len(t) - Len(sub)) : SubSeq(t, i + 1, i + Len(sub)) = sub

\* the id in an optional field is truthy: present and not the empty string
truthy(r, k) == k \in DOMAIN r /\ r[k] # 0

\* the word in an optional field (a direction) is truthy
truthyWord(r, k) == k \in DOMAIN r /\ r[k] # ""

\* intent.<k>?.trim(), <<>> when the field is undefined
trimmed(r, k) == IF k \in DOMAIN r THEN trim(r[k]) ELSE <<>>

\* normalizeVoiceAddEntry: None for an entry without text, else text, a positive
\* quantity (1 by default) and the unit ("" by default); milk without quantity and
\* unit is one litre
normalizeVoiceAddEntry(entry) ==
  LET text == trim(entry.text)
      hasQuantity == "quantity" \in DOMAIN entry /\ entry.quantity > 0
      unit0 == IF "unit" \in DOMAIN entry THEN trim(entry.unit) ELSE <<>>
      milk == ~hasQuantity /\ unit0 = <<>> /\ includes(toLowerCase(text), Milk)
  IN IF text = <<>> THEN None
     ELSE [kind |-> "entry", text |-> text,
           quantity |-> IF hasQuantity THEN entry.quantity ELSE 1,
           unit |-> IF milk THEN <<"L">> ELSE unit0]

\* the types runIntent has a case for
ExecutableTypes ==
  {"add_item", "add_items_bulk", "edit_item_text", "set_quantity", "set_unit",
   "check_item", "uncheck_item", "delete_item", "move_item", "check_all", "uncheck_all",
   "clear_checked", "clear_all", "create_list", "select_list", "rename_list",
   "delete_list", "move_list", "read_items"}

\* the fixed enumeration of intent types
IntentTypes == ExecutableTypes \cup {"clarify", "unknown"}

\* what runIntent hands back: the string it returns, the mutation calls it makes in
\* order (each awaited before the next), and the list it makes active (0: none,
\* -1: the list its createList returns)
answer(text, args) == [message |-> [text |-> text, args |-> args], calls |-> <<>>, select |-> 0]

call(fn, listId, args) == [fn |-> fn, listId |-> listId, args |-> args]

does(text, args, made) ==
  [message |-> [text |-> text, args |-> args], calls |-> made, select |-> 0]

\* listReadoutText is not a mutation; its text is the name of the list and its items
listReadoutText(st) == answer("readout", <<st.currentListId, Len(st.items)>>)

\* the case move_item of runIntent with the check of the fields ahead of the check of
\* the selected list
moveItemIntent_fieldsFirst(st, intent) ==
  LET index == IF "itemId" \in DOMAIN intent THEN findIndex(st.items, intent.itemId) ELSE 0
      targetIndex == IF intent.direction = "up" THEN index - 1 ELSE index + 1
  IN IF ~truthy(intent, "itemId") \/ ~truthyWord(intent, "direction")
       THEN answer("I need item and direction.", <<>>)
     ELSE IF st.currentListId = 0 THEN answer("No list is selected.", <<>>)
     ELSE IF index < 1 THEN answer("Could not find that item.", <<>>)
     ELSE IF targetIndex < 1 \/ targetIndex > Len(st.items)
       THEN answer("That item cannot move further.", <<>>)
     ELSE LET current == st.items[index]
              target == st.items[targetIndex]
              orders == swapOrders(current.order, target.order, intent.direction)
          IN does("Moved item", <<intent.direction>>,
                  <<call("persistItemOrder", st.currentListId,
                         [updates |-> <<[id |-> current.id, order |-> orders.current],
                                        [id |-> target.id, order |-> orders.target]>>])>>)

\* the case move_item of runIntent
moveItemIntent(st, intent) ==
  LET index == IF "itemId" \in DOMAIN intent THEN findIndex(st.items, intent.itemId) ELSE 0
      targetIndex == IF intent.direction = "up" THEN index - 1 ELSE index + 1
  IN IF st.currentListId = 0 THEN answer("No list is selected.", <<>>)
     ELSE IF ~truthy(intent, "itemId") \/ ~truthyWord(intent, "direction")
       THEN answer("I need item and direction.", <<>>)
     ELSE IF index < 1 THEN answer("Could not find that item.", <<>>)
     ELSE IF targetIndex < 1 \/ targetIndex > Len(st.items)
       THEN answer("That item cannot move further.", <<>>)
     ELSE LET current == st.items[index]
              target == st.items[targetIndex]
              orders == swapOrders(current.order, target.order, intent.direction)
          IN does("Moved item", <<intent.direction>>,
                  <<call("persistItemOrder", st.currentListId,
                         [updates |-> <<[id |-> current.id, order |-> orders.current],
                                        [id |-> target.id, order |-> orders.target]>>])>>)

\* the case move_list of runIntent without the check of intent.direction
moveListIntent_uncheckedDirection(st, intent) ==
  LET index == IF "listId" \in DOMAIN intent THEN findIndex(st.lists, intent.listId) ELSE 0
      up == "direction" \in DOMAIN intent /\ intent.direction = "up"
      targetIndex == IF up THEN index - 1 ELSE index + 1
  IN IF ~truthy(intent, "listId") THEN answer("I need list and direction.", <<>>)
     ELSE IF index < 1 THEN answer("Could not find that list.", <<>>)
     ELSE IF targetIndex < 1 \/ targetIndex > Len(st.lists)
       THEN answer("That list cannot move further.", <<>>)
     ELSE LET current == st.lists[index]
              target == st.lists[targetIndex]
              orders == swapOrders(current.order, target.order, IF up THEN "up" ELSE "down")
          IN does("Moved list", <<IF up THEN "up" ELSE "down">>,
                  <<call("persistListOrder", 0,
                         [updates |-> <<[id |-> current.id, order |-> orders.current],
                                        [id |-> target.id, order |-> orders.target]>>])>>)

\* the case move_list of runIntent
moveListIntent(st, intent) ==
  LET index == IF "listId" \in DOMAIN intent THEN findIndex(st.lists, intent.listId) ELSE 0
      targetIndex == IF intent.direction = "up" THEN index - 1 ELSE index + 1
  IN IF ~truthy(intent, "listId") \/ ~truthyWord(intent, "direction")
       THEN answer("I need list and direction.", <<>>)
     ELSE IF index < 1 THEN answer("Could not find that list.", <<>>)
     ELSE IF targetIndex < 1 \/ targetIndex > Len(st.lists)
       THEN answer("That list cannot move further.", <<>>)
     ELSE LET current == st.lists[index]
              target == st.lists[targetIndex]
              orders == swapOrders(current.order, target.order, intent.direction)
          IN does("Moved list", <<intent.direction>>,
                  <<call("persistListOrder", 0,
                         [updates |-> <<[id |-> current.id, order |-> orders.current],
                                        [id |-> target.id, order |-> orders.target]>>])>>)

\* the cases add_item and add_items_bulk of runIntent
addIntent(st, intent) ==
  LET one == normalizeVoiceAddEntry(
               [k \in {"text"} \cup (DOMAIN intent \cap {"quantity", "unit"}) |->
                  IF k = "text" THEN trimmed(intent, "itemText") ELSE intent[k]])
      raw == IF "items" \in DOMAIN intent THEN intent.items ELSE <<>>
      normalized == [n \in DOMAIN raw |-> normalizeVoiceAddEntry(raw[n])]
      normalizedItems == SelectSeq(normalized, LAMBDA e : e # None)
      create(e) == call("createItem", st.currentListId,
                        [text |-> e.text, quantity |-> e.quantity, unit |-> e.unit])
  IN IF st.currentListId = 0 THEN answer("No list is selected.", <<>>)
     ELSE IF intent.type = "add_item"
       THEN IF trimmed(intent, "itemText") = <<>> \/ one = None
              THEN answer("I need an item name to add.", <<>>)
              ELSE does("Added", <<one.text>>, <<create(one)>>)
     ELSE IF normalizedItems = <<>>
       THEN answer("I could not detect valid items to add.", <<>>)
     ELSE does("Added", [n \in DOMAIN normalizedItems |-> normalizedItems[n].text],
               [n \in DOMAIN normalizedItems |-> create(normalizedItems[n])])

\* the cases of runIntent that change one item of the selected list
itemIntent(st, intent) ==
  LET update(data, text) ==
        does(text, <<>>, <<call("updateItem", st.currentListId,
                                [id |-> intent.itemId, data |-> data])>>)
  IN IF st.currentListId = 0 THEN answer("No list is selected.", <<>>)
     ELSE IF intent.type = "edit_item_text"
       THEN IF ~truthy(intent, "itemId") \/ trimmed(intent, "newText") = <<>>
              THEN answer("I need the item and new name.", <<>>)
              ELSE update([text |-> trim(intent.newText)], "Item updated.")
     ELSE IF intent.type = "set_quantity"
       THEN IF ~truthy(intent, "itemId") \/ "quantity" \notin DOMAIN intent
              THEN answer("I need the item and quantity.", <<>>)
              ELSE update([quantity |-> intent.quantity], "Quantity updated.")
     ELSE IF intent.type = "set_unit"
       THEN IF ~truthy(intent, "itemId") \/ "unit" \notin DOMAIN intent
              THEN answer("I need the item and unit.", <<>>)
              ELSE update([unit |-> intent.unit], "Unit updated.")
     ELSE IF intent.type = "check_item"
       THEN IF ~truthy(intent, "itemId") THEN answer("I need the item to check.", <<>>)
            ELSE update([checked |-> TRUE], "Item checked.")
     ELSE IF intent.type = "uncheck_item"
       THEN IF ~truthy(intent, "itemId") THEN answer("I need the item to uncheck.", <<>>)
            ELSE update([checked |-> FALSE], "Item unchecked.")
     ELSE IF ~truthy(intent, "itemId") THEN answer("I need the item to delete.", <<>>)
     ELSE does("Item deleted.", <<>>,
               <<call("deleteItem", st.currentListId, [id |-> intent.itemId])>>)

\* the cases of runIntent that change every item of the selected list
bulkIntent(st, intent) ==
  IF st.currentListId = 0 THEN answer("No list is selected.", <<>>)
  ELSE IF intent.type = "check_all"
    THEN does("Checked all items.", <<>>,
              <<call("updateAllItems", st.currentListId, [checked |-> TRUE])>>)
  ELSE IF intent.type = "uncheck_all"
    THEN does("Unchecked all items.", <<>>,
              <<call("updateAllItems", st.currentListId, [checked |-> FALSE])>>)
  ELSE IF intent.type = "clear_checked"
    THEN does("Cleared checked items.", <<>>,
              <<call("clearCheckedItems", st.currentListId, [checked |-> FALSE])>>)
  ELSE does("Cleared all items.", <<>>,
            <<call("clearAllItems", st.currentListId, [checked |-> FALSE])>>)

\* the cases create_list, select_list, rename_list and delete_list of runIntent
listIntent(st, intent) ==
  LET targetListId == IF "listId" \in DOMAIN intent THEN intent.listId ELSE st.currentListId
  IN IF intent.type = "create_list"
       THEN IF trimmed(intent, "listName") = <<>>
              THEN answer("I need a name for the new list.", <<>>)
              ELSE [does("Created list", <<trim(intent.listName)>>,
                         <<call("createList", 0, [name |-> trim(intent.listName),
                                                   isDefault |-> FALSE])>>)
                      EXCEPT !.select = -1]
     ELSE IF intent.type = "select_list"
       THEN IF ~truthy(intent, "listId") THEN answer("I need a list to select.", <<>>)
            ELSE [answer("List selected.", <<>>) EXCEPT !.select = intent.listId]
     ELSE IF intent.type = "rename_list"
       THEN IF targetListId = 0 \/ trimmed(intent, "newName") = <<>>
              THEN answer("I need the list and new name.", <<>>)
              ELSE does("List renamed.", <<>>,
                        <<call("updateList", targetListId, [name |-> trim(intent.newName)])>>)
     ELSE IF targetListId = 0 THEN answer("No list is selected.", <<>>)
     ELSE does("List deleted.", <<>>,
               <<call("deleteListWithItems", targetListId,
                      [keepItems |-> "keepItems" \in DOMAIN intent /\ intent.keepItems,
                       defaultListId |-> defaultOf(st.lists)])>>)

\* runIntent: the sign-in check, then the switch on intent.type
runIntent(st, intent) ==
  IF st.user = "" THEN answer("Please sign in to use voice controls.", <<>>)
  ELSE IF intent.type \in {"add_item", "add_items_bulk"} THEN addIntent(st, intent)
  ELSE IF intent.type \in {"edit_item_text", "set_quantity", "set_unit", "check_item",
                           "uncheck_item", "delete_item"} THEN itemIntent(st, intent)
  ELSE IF intent.type = "move_item" THEN moveItemIntent(st, intent)
  ELSE IF intent.type \in {"check_all", "uncheck_all", "clear_checked", "clear_all"}
    THEN bulkIntent(st, intent)
  ELSE IF intent.type \in {"create_list", "select_list", "rename_list", "delete_list"}
    THEN listIntent(st, intent)
  ELSE IF intent.type = "move_list" THEN moveListIntent(st, intent)
  ELSE IF intent.type = "read_items" THEN listReadoutText(st)
  ELSE answer("I could not understand the command.", <<>>)

\* =============================================== specification SpecVoice
\* one voice turn of a client: the recording stops, the remote parse returns an intent or
\* throws, runIntent makes its repository calls await by await, the answer is spoken;
\* meanwhile the user may sign out and snapshots arrive

\* the fields of an intent that its case of runIntent cannot do without
requiredFields(type) ==
  IF type = "add_item" THEN {"itemText"}
  ELSE IF type = "add_items_bulk" THEN {"items"}
  ELSE IF type = "edit_item_text" THEN {"itemId", "newText"}
  ELSE IF type = "set_quantity" THEN {"itemId", "quantity"}
  ELSE IF type = "set_unit" THEN {"itemId", "unit"}
  ELSE IF type \in {"check_item", "uncheck_item", "delete_item"} THEN {"itemId"}
  ELSE IF type = "move_item" THEN {"itemId", "direction"}
  ELSE IF type = "create_list" THEN {"listName"}
  ELSE IF type = "select_list" THEN {"listId"}
  ELSE IF type = "rename_list" THEN {"newName"}
  ELSE IF type = "move_list" THEN {"listId", "direction"}
  ELSE {}

\* the fields its case of runIntent reads besides: the list of rename_list and delete_list
\* (the selected list when undefined), keepItems, and the quantity and unit of add_item
optionalFields(type) ==
  IF type = "add_item" THEN {"quantity", "unit"}
  ELSE IF type = "rename_list" THEN {"listId"}
  ELSE IF type = "delete_list" THEN {"listId", "keepItems"}
  ELSE {}

\* field values an interpreter may deliver
IntentValues ==
  {[itemId |-> 1, listId |-> 1, itemText |-> Milk, listName |-> Rice, newText |-> Bread,
    newName |-> Rice, quantity |-> 2, unit |-> Kg, direction |-> "down", keepItems |-> TRUE,
    items |-> <<[text |-> Milk], [text |-> Rice, quantity |-> 2, unit |-> Kg]>>],
   [itemId |-> 9, listId |-> 1, itemText |-> Blank, listName |-> Blank, newText |-> Blank,
    newName |-> Blank, quantity |-> 2, unit |-> Kg, direction |-> "up", keepItems |-> FALSE,
    items |-> <<[text |-> Blank]>>]}

\* the intents of every type, and of a type outside the enumeration, with each subset of
\* the fields present
VoiceIntents ==
  {[k \in {"type"} \cup present |-> IF k = "type" THEN type ELSE values[k]] :
     <<type, values, present>> \in
       {x \in (IntentTypes \cup {"dance"}) \X IntentValues
                \X SUBSET {"itemId", "listId", "itemText", "listName", "newText", "newName",
                           "quantity", "unit", "direction", "keepItems", "items"} :
          x[3] \subseteq requiredFields(x[1]) \cup optionalFields(x[1])}}

say(text) == [text |-> text, args |-> <<>>]

\* the voice turn before the recording stops; pending is pendingClarification (TRUE when
\* it is not null), requests the payloads of the parseVoiceCommand calls of the turn
listening ==
  [pc |-> "ready", status |-> say("Listening..."), captured |-> FALSE, intent |-> None,
   out |-> None, k |-> 0, before |-> None, pending |-> FALSE, failed |-> FALSE,
   escaped |-> FALSE, spoke |-> "", retried |-> FALSE, requests |-> <<>>, turn |-> 1]

\* the payload of a parseVoiceCommand call, as far as the clarification goes
parsePayload(forceBulk) == [forceBulk |-> forceBulk, pendingClarification |-> voice.pending]

\* a recorder handler without the catch block: the exception leaves the handler
caught_unhandled(v) == [v EXCEPT !.pc = "over", !.escaped = TRUE]

\* the catch block of mediaRecorder.onstop
caught(v) ==
  [v EXCEPT !.status = say("Voice command failed. Try again."), !.failed = TRUE,
            !.pc = "speak"]

\* mediaRecorder.onstop and the head of processVoiceCommand
OnStop(captured) ==
  /\ voice.pc = "ready"
  /\ voice' = IF ~captured
                THEN [voice EXCEPT !.status = say("No voice captured. Try again."),
                                   !.pc = "over"]
              ELSE IF state.user = ""
                THEN [voice EXCEPT !.status = say("Sign in is required for voice controls."),
                                   !.captured = TRUE, !.pc = "speak"]
              ELSE [voice EXCEPT !.status = say("Understanding command..."),
                                 !.captured = TRUE, !.pc = "parse",
                                 !.requests = Append(@, parsePayload(FALSE))]
  /\ UNCHANGED <<lists, items, usedIds, clock, state, op, batchLog, issued, created,
                 lastMove, lastUpdate, swapCall, raised, calls, tasks, peer>>

\* what processVoiceCommand does with the intent it settles on: a clarification is asked,
\* any other intent runs up to the first await of runIntent
Interpreted(intent) ==
  LET out == runIntent(state, intent)
      v == [voice EXCEPT !.intent = intent]
  IN IF intent.type = "clarify"
       THEN /\ voice' = [v EXCEPT !.pending = TRUE,
                                  !.status = [text |-> "Clarification needed", args |-> <<>>],
                                  !.pc = "speak"]
            /\ UNCHANGED state
       ELSE /\ voice' = [v EXCEPT !.pending = FALSE, !.out = out,
                                  !.before = [lists |-> lists, items |-> items, user |-> state.user,
                                              currentListId |-> state.currentListId],
                                  !.status = IF out.calls = <<>>
                                               THEN [text |-> "Executed", args |-> <<out.message>>]
                                               ELSE @,
                                  !.pc = IF out.calls = <<>> THEN "speak" ELSE "call"]
            /\ state' = IF out.calls = <<>> /\ out.select > 0
                          THEN setActiveList(state, out.select) ELSE state

\* the first parseVoiceCommand returns; multi is looksLikeMultiAddTranscript(transcript)
ParseReturns(intent, multi) ==
  /\ voice.pc = "parse"
  /\ IF intent.type = "add_item" /\ multi
       THEN /\ voice' = [voice EXCEPT !.intent = intent, !.retried = TRUE, !.pc = "retry",
                                  !.requests = Append(@, parsePayload(TRUE))]
            /\ UNCHANGED state
       ELSE Interpreted(intent)
  /\ UNCHANGED <<lists, items, usedIds, clock, op, batchLog, issued, created,
                 lastMove, lastUpdate, swapCall, raised, calls, tasks, peer>>

\* the parseVoiceCommand with forceBulk returns
RetryReturns(intent) ==
  /\ voice.pc = "retry"
  /\ Interpreted(IF intent.type = "add_items_bulk" THEN intent ELSE voice.intent)
  /\ UNCHANGED <<lists, items, usedIds, clock, op, batchLog, issued, created,
                 lastMove, lastUpdate, swapCall, raised, calls, tasks, peer>>

\* parseVoiceCommand rejects
ParseThrows ==
  /\ voice.pc \in {"parse", "retry"}
  /\ voice' = caught(voice)
  /\ UNCHANGED <<lists, items, usedIds, clock, state, op, batchLog, issued, created,
                 lastMove, lastUpdate, swapCall, raised, calls, tasks, peer>>

\* the repository operation that a call of runIntent starts
launch(c, user) ==
  IF c.fn \in SimpleKinds
    THEN [newOp(c.fn, c.listId, user, FALSE, 0, FALSE) EXCEPT !.pc = "write", !.args = c.args]
  ELSE IF c.fn = "deleteListWithItems"
    THEN newOp(c.fn, c.listId, user, c.args.keepItems, c.args.defaultListId, FALSE)
  ELSE newOp(c.fn, c.listId, user, FALSE, 0, c.args.checked)

\* runIntent makes its next call; the calls after the first one (the loop of
\* add_items_bulk) read state.currentListId and state.user.uid when they are made
VoiceCall ==
  /\ voice.pc = "call"
  /\ op = Idle
  /\ LET c == voice.out.calls[voice.k + 1]
     IN IF voice.k > 0 /\ (state.user = "" \/ state.currentListId = 0)
          THEN /\ voice' = caught(voice)
               /\ UNCHANGED <<op, batchLog>>
          ELSE /\ op' = launch([c EXCEPT !.listId = IF voice.k > 0 THEN state.currentListId
                                                   ELSE @], state.user)
               /\ batchLog' = <<>>
               /\ voice' = [voice EXCEPT !.pc = "await"]
  /\ UNCHANGED <<lists, items, usedIds, clock, state, issued, created,
                 lastMove, lastUpdate, swapCall, raised, calls, tasks, peer>>

\* the call that runIntent awaits returns or throws
VoiceAwait ==
  /\ voice.pc = "await"
  /\ op.pc \in {"resolved", "rejected"}
  /\ op' = Idle
  /\ calls' = Append(calls, [kind |-> op.kind, listId |-> op.listId, result |-> op.pc,
                              error |-> op.error, writes |-> Len(batchLog),
                              touched |-> op.touched])
  /\ raised' = None
  /\ IF op.pc = "rejected"
       THEN voice' = caught(voice) /\ UNCHANGED state
     ELSE IF voice.k + 1 < Len(voice.out.calls)
       THEN voice' = [voice EXCEPT !.k = @ + 1, !.pc = "call"] /\ UNCHANGED state
     ELSE /\ voice' = [voice EXCEPT !.k = @ + 1,
                                    !.status = [text |-> "Executed",
                                                args |-> <<voice.out.message>>],
                                    !.pc = "speak"]
          /\ state' = IF voice.out.select = -1 THEN setActiveList(state, op.result)
                      ELSE state
  /\ UNCHANGED <<lists, items, usedIds, clock, batchLog, issued, created,
                 lastMove, lastUpdate, swapCall, tasks, peer>>

\* speakResponse: speakText and the audio element, fallbackSpeak when either throws or
\* nobody is signed in; then the finally block of the recorder handler
Speak(ok) ==
  /\ voice.pc = "speak"
  /\ voice' = [voice EXCEPT !.spoke = IF state.user # "" /\ ok THEN "speakText"
                                      ELSE "fallbackSpeak",
                            !.pc = "over"]
  /\ UNCHANGED <<lists, items, usedIds, clock, state, op, batchLog, issued, created,
                 lastMove, lastUpdate, swapCall, raised, calls, tasks, peer>>

\* the Inbox and the list "Shop" with two items; the client is signed in and has either
\* received both snapshots or none yet
InitVoice ==
  /\ lists = (1 :> newListDoc("Inbox", "ann", "ann", TRUE, 1, 0))
               @@ (2 :> newListDoc("Shop", "ann", "ann", FALSE, 2, 0))
  /\ items = [l \in ListIds |->
                IF l = 2 THEN (1 :> newItemDoc(Milk, "ann", "ann", 1, 0))
                              @@ (2 :> [newItemDoc(Rice, "ann", "ann", 2, 0)
                                          EXCEPT !.checked = TRUE])
                ELSE <<>>]
  /\ usedIds = [lists |-> {1, 2}, items |-> {1, 2}, hi |-> 2]
  /\ clock = MaxClock + 1
  /\ \/ state = [freshClient EXCEPT !.user = "bob"]
     \/ state = [[freshClient EXCEPT !.user = "bob", !.lists = mapList(lists, clock),
                                     !.listsLoaded = TRUE, !.currentListId = 2,
                                     !.storedListId = 2, !.items = mapItems(items[2], clock)]
                   EXCEPT !.listeners = itemsListening(2, 2).listeners,
                          !.unsubscribeItems = itemsListening(2, 2).unsubscribeItems,
                          !.itemsOf = 2]
  /\ op = Idle
  /\ batchLog = <<>>
  /\ issued = <<>>
  /\ created = <<>>
  /\ lastMove = None
  /\ lastUpdate = None
  /\ swapCall = None
  /\ raised = None
  /\ calls = <<>>
  /\ tasks = {}
  /\ peer = None
  /\ voice = listening

NextVoice ==
  \/ \E captured \in BOOLEAN : OnStop(captured)
  \/ \E intent \in VoiceIntents, multi \in BOOLEAN : ParseReturns(intent, multi)
  \/ \E intent \in {i \in VoiceIntents : i.type \in {"add_items_bulk", "add_item", "clarify"}} :
       RetryReturns(intent)
  \/ ParseThrows
  \/ VoiceCall
  \/ VoiceAwait
  \/ \E ok \in BOOLEAN : Speak(ok)
  \/ OpWrite
  \/ OpGetDocs
  \/ OpEnsureDefault
  \/ OpCommitChunk
  \/ OpFinal
  \/ OpStoreFails
  \/ \E user \in {"", "bob"} : AuthChange(user)
  \/ ListsSnapshot
  \/ ItemsSnapshot
  \/ \E t \in tasks : TaskCreateList(t)

SpecVoice == InitVoice /\ [][NextVoice]_vars

\* the strings with which runIntent reports that it did not execute the command
FailureTexts ==
  {"Please sign in to use voice controls.", "No list is selected.",
   "I need an item name to add.", "I could not detect valid items to add.",
   "I need the item and new name.", "I need the item and quantity.",
   "I need the item and unit.", "I need the item to check.", "I need the item to uncheck.",
   "I need the item to delete.", "I need item and direction.", "Could not find that item.",
   "That item cannot move further.", "I need a name for the new list.",
   "I need a list to select.", "I need the list and new name.",
   "I need list and direction.", "Could not find that list.",
   "That list cannot move further.", "I could not understand the command."}

\* runIntent has run in this turn
HasRun == voice.out # None

\* the intent is not executable as it stands: its type has no case, or a required field
\* is undefined
Malformed(intent) ==
  \/ intent.type \notin ExecutableTypes
  \/ \E k \in requiredFields(intent.type) : k \notin DOMAIN intent

\* ------------------------------------------------------------------ C22
\* C22: for an intent whose type is unknown or outside the enumeration, or that lacks a
\* field required by its type, runIntent makes no mutation call and returns a failure
\* message, and the store stays as it was when runIntent was entered.
C22_MalformedIntentWritesNothing ==
  (HasRun /\ Malformed(voice.intent)) =>
     /\ voice.out.calls = <<>>
     /\ voice.out.select = 0
     /\ voice.out.message.text \in FailureTexts
     /\ op = Idle
     /\ lists = voice.before.lists
     /\ items = voice.before.items

\* a signed-in client with a list selected was given a move_item intent without direction
\* and the turn is over with the failure message in the status line
C22_Witness ==
  /\ HasRun
  /\ voice.intent.type = "move_item"
  /\ "itemId" \in DOMAIN voice.intent
  /\ "direction" \notin DOMAIN voice.intent
  /\ state.user # ""
  /\ state.currentListId # 0
  /\ voice.pc = "over"
  /\ voice.status = [text |-> "Executed", args |-> <<say("I need item and direction.")>>]

\* ------------------------------------------------------------------ C23
\* C23 as stated: runIntent applied to a move_item intent without itemId returns exactly
\* "I need item and direction." and makes no mutation call, whether or not somebody is
\* signed in and a list is selected.
C23_MoveWithoutItemAlwaysSaysNeedItem ==
  (HasRun /\ voice.intent.type = "move_item" /\ "itemId" \notin DOMAIN voice.intent) =>
     /\ voice.out.calls = <<>>
     /\ voice.out.message = say("I need item and direction.")

\* C23 amended: runIntent applied to a move_item intent without itemId makes no mutation
\* call; it returns "Please sign in to use voice controls." when nobody is signed in,
\* else "No list is selected." when no list is selected, else "I need item and
\* direction.".
C23_MoveWithoutItemIsRefused ==
  (HasRun /\ voice.intent.type = "move_item" /\ "itemId" \notin DOMAIN voice.intent) =>
     /\ voice.out.calls = <<>>
     /\ voice.out.message =
          IF voice.before.user = "" THEN say("Please sign in to use voice controls.")
          ELSE IF voice.before.currentListId = 0 THEN say("No list is selected.")
          ELSE say("I need item and direction.")

\* a move_item intent without itemId has run on a signed-in client that had no list
\* selected yet, and the turn is over
C23_Witness ==
  /\ HasRun
  /\ voice.intent.type = "move_item"
  /\ "itemId" \notin DOMAIN voice.intent
  /\ voice.before.user # ""
  /\ voice.before.currentListId = 0
  /\ voice.out.message = say("No list is selected.")
  /\ voice.pc = "over"

\* the status lines on which a captured voice command may end
FinalStatusTexts ==
  {"Executed", "Clarification needed", "Sign in is required for voice controls.",
   "Voice command failed. Try again."}

Str(v) == [t |-> "string", v |-> v]
Word(w, pad) == [t |-> "string", w |-> w, pad |-> pad]
Num(v) == [t |-> "number", v |-> v]
Bool(v) == [t |-> "boolean", v |-> v]

\* an optional value: <<>> is undefined, <<v>> is the value v
Undefined == <<>>
Some(v) == <<v>>

\* coerceString on a text field: the trimmed string, undefined for anything else
coerceString(data, k) ==
  IF k \in DOMAIN data /\ data[k].t = "string" /\ trim(data[k].v) # <<>>
    THEN Some(trim(data[k].v)) ELSE Undefined

\* coerceString on a field that holds a word: trim removes the surrounding white space
coerceWord(data, k) ==
  IF k \in DOMAIN data /\ data[k].t = "string" /\ data[k].w # ""
    THEN Some(data[k].w) ELSE Undefined

\* coerceString on a field that holds an id
coerceId(data, k) ==
  IF k \in DOMAIN data /\ data[k].t = "string" /\ data[k].v # 0
    THEN Some(data[k].v) ELSE Undefined

\* coerceNumber
coerceNumber(data, k) ==
  IF k \in DOMAIN data /\ data[k].t = "number" THEN Some(data[k].v) ELSE Undefined

\* coerceBoolean
coerceBoolean(data, k) ==
  IF k \in DOMAIN data /\ data[k].t = "boolean" THEN Some(data[k].v) ELSE Undefined

\* an object literal of optional values: the keys whose value is undefined are left out
\* (v is the value of r)
defined(r) ==
  CHOOSE object \in {[k \in {j \in DOMAIN v : v[j] # Undefined} |-> v[k][1]] : v \in {r}} : TRUE

KgWords == {<<"k", "g">>,
   <<"k", "i", "l", "o">>,
   <<"k", "i", "l", "o", "s">>,
   <<"k", "i", "l", "o", "g", "r", "a", "m">>,
   <<"k", "i", "l", "o", "g", "r", "a", "m", "s">>}
GramWords == {<<"g">>,
   <<"g", "r", "a", "m">>,
   <<"g", "r", "a", "m", "s">>}
LitreWords == {<<"l">>,
   <<"l", "t">>,
   <<"l", "t", "r">>,
   <<"l", "i", "t", "e", "r">>,
   <<"l", "i", "t", "r", "e">>,
   <<"l", "i", "t", "e", "r", "s">>,
   <<"l", "i", "t", "r", "e", "s">>}
MlWords == {<<"m", "l">>,
   <<"m", "i", "l", "l", "i", "l", "i", "t", "e", "r">>,
   <<"m", "i", "l", "l", "i", "l", "i", "t", "r", "e">>,
   <<"m", "i", "l", "l", "i", "l", "i", "t", "e", "r", "s">>,
   <<"m", "i", "l", "l", "i", "l", "i", "t", "r", "e", "s">>}

\* normalizeUnit that returns the trimmed unit whatever it is
normalizeUnit_trimOnly(unit) ==
  IF unit = Undefined \/ unit[1] = <<>> THEN Undefined
  ELSE IF trim(unit[1]) = <<>> THEN Undefined
  ELSE Some(trim(unit[1]))

\* normalizeUnit: the canonical unit of a synonym in any case, else the trimmed unit
normalizeUnit(unit) ==
  IF unit = Undefined \/ unit[1] = <<>> THEN Undefined
  ELSE LET cleaned == toLowerCase(trim(unit[1]))
       IN IF cleaned = <<>> THEN Undefined
          ELSE IF cleaned \in KgWords THEN Some(<<"k", "g">>)
          ELSE IF cleaned \in GramWords THEN Some(<<"g">>)
          ELSE IF cleaned \in LitreWords THEN Some(<<"L">>)
          ELSE IF cleaned \in MlWords THEN Some(<<"m", "l">>)
          ELSE Some(trim(unit[1]))

\* the items[] of normalizeIntent: the entries that are objects, each with its coerced
\* text, quantity and unit, those without text dropped
normalizeItems(raw) ==
  LET objects == SelectSeq(raw, LAMBDA e : e.t = "object")
      mapped == [n \in DOMAIN objects |->
                   defined([text |-> IF coerceString(objects[n].v, "text") = Undefined
                                       THEN Some(<<>>)
                                       ELSE coerceString(objects[n].v, "text"),
                            quantity |-> coerceNumber(objects[n].v, "quantity"),
                            unit |-> coerceString(objects[n].v, "unit")])]
  IN SelectSeq(mapped, LAMBDA e : e.text # <<>>)

\* normalizeIntent: raw is the object parsed from the interpreter's answer, None when it
\* is not an object
normalizeIntent(raw) ==
  IF raw = None THEN [type |-> "unknown"]
  ELSE defined(
    [type |-> IF coerceWord(raw, "type") = Undefined THEN Some("unknown")
              ELSE coerceWord(raw, "type"),
     itemId |-> coerceId(raw, "itemId"),
     listId |-> coerceId(raw, "listId"),
     itemText |-> coerceString(raw, "itemText"),
     listName |-> coerceString(raw, "listName"),
     newText |-> coerceString(raw, "newText"),
     newName |-> coerceString(raw, "newName"),
     quantity |-> coerceNumber(raw, "quantity"),
     unit |-> coerceString(raw, "unit"),
     direction |-> IF coerceWord(raw, "direction") \in {Some("up"), Some("down")}
                     THEN coerceWord(raw, "direction") ELSE Undefined,
     keepItems |-> coerceBoolean(raw, "keepItems"),
     question |-> coerceString(raw, "question"),
     items |-> IF "items" \in DOMAIN raw /\ raw.items.t = "array"
                 THEN Some(normalizeItems(raw.items.v)) ELSE Undefined])

\* the texts; the operators below that inspect a text many times are functions of it
Text == Seq(STRING)

\* the pattern matches the text at position i, letters compared without case
matchesAt(t, i, pattern) ==
  /\ i + Len(pattern) - 1 <= Len(t)
  /\ \A k \in 1..Len(pattern) : toLowerCase(<<t[i + k - 1]>>) = <<pattern[k]>>

\* transcript.split(/,| and | & /gi) from position i on, cur being the piece collected so
\* far; the two Kannada conjunctions of the pattern do not occur in the transcripts here
splitFrom[t \in Text, i \in Nat, cur \in Text] ==
  IF i > Len(t) THEN <<cur>>
  ELSE IF t[i] = "," THEN <<cur>> \o splitFrom[t, i + 1, <<>>]
  ELSE IF matchesAt(t, i, <<" ", "a", "n", "d", " ">>) THEN <<cur>> \o splitFrom[t, i + 5, <<>>]
  ELSE IF matchesAt(t, i, <<" ", "&", " ">>) THEN <<cur>> \o splitFrom[t, i + 3, <<>>]
  ELSE splitFrom[t, i + 1, Append(cur, t[i])]

\* the number of leading characters of a text that belong to the set
run(set) ==
  [t \in Text |->
     (CHOOSE i \in 1..(Len(t) + 1) :
        /\ i > Len(t) \/ t[i] \notin set
        /\ \A j \in 1..(i - 1) : t[j] \in set) - 1]

\* the text from position i on
from(t, i) == SubSeq(t, i, Len(t))

\* the length of the match of \d+(?:\.\d+)? at the head of t, 0 when there is none
numeralLen[t \in Text] ==
  LET d == run(DigitChars)[t]
      frac == IF d > 0 /\ d < Len(t) /\ t[d + 1] = "." THEN run(DigitChars)[from(t, d + 2)]
              ELSE 0
  IN IF frac > 0 THEN d + 1 + frac ELSE d

\* Number.parseFloat of a numeral without fraction (the transcripts here hold no other)
parseFloat[t \in Text] ==
  IF t = <<>> THEN 0
  ELSE 10 * parseFloat[SubSeq(t, 1, Len(t) - 1)]
       + (CHOOSE n \in 0..9 : <<"0", "1", "2", "3", "4", "5", "6", "7", "8", "9">>[n + 1] = t[Len(t)])

\* the groups of a match of one of the two patterns of parseBulkItemsHeuristically
Matches == [kind : {"match"}, quantity : Text, unit : Seq(Text), text : Text]

\* \s*([a-zA-Z]+)?\s+(.+)$ on what follows the numeral: the unit is the run of letters
\* when white space and more text follow it, otherwise no unit is captured and at least
\* one blank must follow the numeral
afterNumeral[quantity \in Text, rest \in Text] ==
  LET ws == run({" "})[rest]
      word == run(LetterChars)[from(rest, ws + 1)]
      after == from(rest, ws + word + 1)
  IN IF word > 0 /\ run({" "})[after] > 0 /\ trim(after) # <<>>
       THEN [kind |-> "match", quantity |-> quantity,
             unit |-> Some(SubSeq(rest, ws + 1, ws + word)), text |-> trim(after)]
     ELSE IF ws > 0 /\ Len(rest) > ws
       THEN [kind |-> "match", quantity |-> quantity, unit |-> Undefined,
             text |-> trim(from(rest, ws + 1))]
     ELSE None

\* chunk.match(/^(\d+(?:\.\d+)?)\s*([a-zA-Z]+)?\s+(.+)$/) on a trimmed chunk
fullMatch[chunk \in Text] ==
  LET n == numeralLen[chunk]
  IN IF n = 0 THEN None ELSE afterNumeral[SubSeq(chunk, 1, n), from(chunk, n + 1)]

\* the text matches \s+(\d+(?:\.\d+)?)\s*([a-zA-Z]+)?$
tailMatches[rest \in Text] ==
  LET ws == run({" "})[rest]
      n == numeralLen[from(rest, ws + 1)]
      after == from(rest, ws + n + 1)
      ws2 == run({" "})[after]
  IN ws > 0 /\ n > 0 /\ run(LetterChars)[from(after, ws2 + 1)] = Len(after) - ws2

\* the groups of the match whose first group is head and whose remainder is rest
headAndTail[head \in Text, rest \in Text] ==
  LET ws == run({" "})[rest]
      n == numeralLen[from(rest, ws + 1)]
      after == from(rest, ws + n + 1)
      ws2 == run({" "})[after]
  IN [kind |-> "match", text |-> trim(head), quantity |-> SubSeq(rest, ws + 1, ws + n),
      unit |-> IF Len(after) > ws2 THEN Some(from(after, ws2 + 1)) ELSE Undefined]

\* the match with the shortest of the heads after which the remainder matches
shortestHead[chunk \in Text, heads \in SUBSET Nat] ==
  IF heads = {} THEN None
  ELSE LET p == CHOOSE q \in heads : \A r \in heads : q <= r
       IN headAndTail[SubSeq(chunk, 1, p), from(chunk, p + 1)]

\* chunk.match(/^(.+?)\s+(\d+(?:\.\d+)?)\s*([a-zA-Z]+)?$/)
trailingQuantity[chunk \in Text] ==
  shortestHead[chunk, {p \in 1..Len(chunk) : tailMatches[from(chunk, p + 1)]}]

\* the entry made of the groups of a match
entryOf[m \in Matches] ==
  defined([text |-> Some(m.text), quantity |-> Some(parseFloat[m.quantity]),
           unit |-> normalizeUnit(m.unit)])

\* the entry parseBulkItemsHeuristically makes of one chunk
parseChunk[chunk \in Text] ==
  IF fullMatch[chunk].kind = "match" THEN entryOf[fullMatch[chunk]]
  ELSE IF trailingQuantity[chunk].kind = "match" THEN entryOf[trailingQuantity[chunk]]
  ELSE [text |-> chunk]

\* .map((chunk) => chunk.trim()).filter((chunk) => chunk.length > 0)
trimmedChunks[pieces \in Seq(Text)] ==
  SelectSeq([n \in DOMAIN pieces |-> trim(pieces[n])], LAMBDA c : c # <<>>)

\* the entries of the chunks, none when fewer than two chunks or two entries are left
parsedChunks[chunks \in Seq(Text)] ==
  LET parsed == SelectSeq([n \in DOMAIN chunks |-> parseChunk[chunks[n]]],
                          LAMBDA e : e.text # <<>>)
  IN IF Len(chunks) < 2 THEN <<>>
     ELSE IF Len(parsed) >= 2 THEN parsed ELSE <<>>

\* parseBulkItemsHeuristically
parseBulkItemsHeuristically(transcript) ==
  parsedChunks[trimmedChunks[splitFrom[transcript, 1, <<>>]]]

\* the heuristic override of parseVoiceCommand that leaves forceBulk out of the condition
heuristicOverride_addItemOnly(intent, transcript, forceBulk) ==
  IF intent.type # "add_items_bulk"
    THEN LET heuristicItems == parseBulkItemsHeuristically(transcript)
         IN IF Len(heuristicItems) >= 2 /\ intent.type = "add_item"
              THEN [type |-> "add_items_bulk", items |-> heuristicItems]
              ELSE intent
    ELSE intent

\* the heuristic override of parseVoiceCommand
heuristicOverride(intent, transcript, forceBulk) ==
  IF intent.type # "add_items_bulk"
    THEN LET heuristicItems == parseBulkItemsHeuristically(transcript)
         IN IF Len(heuristicItems) >= 2 /\ (forceBulk \/ intent.type = "add_item")
              THEN [type |-> "add_items_bulk", items |-> heuristicItems]
              ELSE intent
    ELSE intent

\* the responseText of parseVoiceCommand
responseText(intent) ==
  IF intent.type = "clarify"
    THEN (IF "question" \in DOMAIN intent THEN intent.question ELSE "I found multiple matches. Which one do you mean?")
  ELSE IF intent.type = "unknown"
    THEN "I could not understand that command. Please try again."
  ELSE "Done."

\* assertAllowedOrigin that admits every origin
assertAllowedOrigin_admitsAll(origin, configured) == "ok"

\* assertAllowedOrigin: origin is "none" when the request carries no Origin header,
\* configured tells whether the allow-list has an entry; the result is the error code
\* thrown, "ok" when the function returns
assertAllowedOrigin(origin, configured) ==
  IF origin = "none" THEN "ok"
  ELSE IF ~configured THEN "failed-precondition"
  ELSE IF origin # "allowed" THEN "permission-denied"
  ELSE "ok"

(***************************************************************************)
(* The two callable functions of the voice backend. A request is handled  *)
(* up to its first call of an external service, and again from each reply *)
(* of a service.                                                           *)
(***************************************************************************)
MaxSegments == 3

Segments == {Milk, Bread,
             <<"2", " ", "k", "g", " ", "r", "i", "c", "e">>,
             <<"r", "i", "c", "e", " ", "2", " ", "K", "i", "l", "o", "s">>}

Separators == {<<",", " ">>, <<" ", "a", "n", "d", " ">>}

\* the separators of n segments: the same one throughout, the last one possibly a comma
\* followed by a conjunction
separatorsOf(n) ==
  UNION {{[k \in 1..(n - 1) |-> IF k = n - 1 THEN last ELSE sep] :
            last \in {sep, <<",", " ", "a", "n", "d", " ">>}} : sep \in Separators}

\* the words of the segments, each followed by the next separator
RECURSIVE joined(_, _)
joined(segments, seps) ==
  IF Len(segments) = 1 THEN segments[1]
  ELSE segments[1] \o seps[1] \o joined(Tail(segments), Tail(seps))

\* the answers of the interpreter, as parseJsonObject returns them: None is an answer
\* that holds no JSON object
RawOutputs ==
  { None,
    [type |-> Word("add_item", TRUE), itemText |-> Str(Rice), quantity |-> Num(2),
     unit |-> Str(<<" ", "K", "i", "l", "o", "g", "r", "a", "m">>)],
    [type |-> Word("add_item", FALSE), itemText |-> Str(Milk)],
    [type |-> Word("add_items_bulk", FALSE),
     items |-> [t |-> "array",
                v |-> << [t |-> "object",
                          v |-> [text |-> Str(Milk), quantity |-> Num(2),
                                 unit |-> Str(<<"L", "I", "T", "R", "E">>)]],
                         [t |-> "object", v |-> [text |-> Str(Blank), quantity |-> Num(1)]],
                         [t |-> "string", v |-> Bread],
                         [t |-> "object", v |-> [text |-> Num(3)]],
                         [t |-> "object", v |-> [text |-> Str(Bread), unit |-> Str(Blank)]] >>]],
    [type |-> Word("delete_item", FALSE), itemId |-> Str(1)],
    [type |-> Word("clarify", FALSE), question |-> Str(Milk)],
    [type |-> Word("clarify", FALSE)],
    [type |-> Word("unknown", FALSE)],
    [type |-> Word("dance", FALSE)],
    [type |-> Num(7), itemText |-> Str(Milk)],
    [itemText |-> Str(Milk)],
    [type |-> Word("", TRUE)],
    [type |-> Word("move_item", FALSE), itemId |-> Str(1), direction |-> Word("sideways", FALSE)],
    [type |-> Word("move_item", FALSE), itemId |-> Str(1), direction |-> Word("up", TRUE)],
    [type |-> Word("set_unit", FALSE), itemId |-> Str(1),
     unit |-> Str(<<"b", "a", "g", " ">>)] }

\* the requests a callable function receives: the origin is "none" when the request
\* carries no Origin header, configured tells whether the allow-list has an entry, the
\* payload is the audio or the text, key tells whether the API key is set; forceBulk is
\* sent by the retry of the app
Requests ==
  {r \in [fn : {"parseVoiceCommand", "speakText"},
          auth : BOOLEAN,
          origin : {"none", "allowed", "disallowed"},
          configured : BOOLEAN,
          payload : {"ok", "missing", "empty", "oversize"},
          key : BOOLEAN,
          forceBulk : BOOLEAN] :
     /\ r.origin \in {"none", "allowed"} => r.configured
     /\ r.forceBulk => r.fn = "parseVoiceCommand" /\ r.origin = "allowed" /\ r.payload = "ok"}

received(request) ==
  [pc |-> "request", request |-> request, called |-> {}, error |-> "",
   segments |-> <<>>, transcript |-> <<>>, interpreted |-> None, intent |-> None,
   responseText |-> ""]

\* parseVoiceCommand up to the call of the transcription service
ParseVoiceCommand ==
  /\ voice.pc = "request"
  /\ voice.request.fn = "parseVoiceCommand"
  /\ LET r == voice.request
         origin == assertAllowedOrigin(r.origin, r.configured)
         thrown == IF origin # "ok" THEN origin
                   ELSE IF ~r.auth THEN "unauthenticated"
                   ELSE IF r.payload # "ok" THEN "invalid-argument"
                   ELSE IF ~r.key THEN "failed-precondition"
                   ELSE ""
     IN voice' = IF thrown # "" THEN [voice EXCEPT !.pc = "error", !.error = thrown]
                 ELSE [voice EXCEPT !.pc = "transcribing", !.called = {"speechToText"}]
  /\ UNCHANGED <<lists, items, usedIds, clock, state, op, batchLog, issued, created,
                 lastMove, lastUpdate, swapCall, raised, calls, tasks, peer>>

\* the transcription returns: nothing heard, or the segments with their separators
SttReturns(segments, seps) ==
  /\ voice.pc = "transcribing"
  /\ \E transcript \in {IF segments = <<>> THEN <<>> ELSE trim(joined(segments, seps))} :
       voice' = IF transcript = <<>>
                   THEN [voice EXCEPT !.pc = "done", !.intent = [type |-> "unknown"],
                           !.responseText = "I could not hear you clearly. Please hold and speak again."]
                   ELSE [voice EXCEPT !.pc = "interpreting", !.segments = segments,
                           !.transcript = transcript,
                           !.called = @ \cup {"chat"}]
  /\ UNCHANGED <<lists, items, usedIds, clock, state, op, batchLog, issued, created,
                 lastMove, lastUpdate, swapCall, raised, calls, tasks, peer>>

\* the interpreter returns: the intent is normalized, overridden and answered
ChatReturns(raw) ==
  /\ voice.pc = "interpreting"
  /\ \E interpreted \in {normalizeIntent(raw)} :
       \E intent \in {heuristicOverride(interpreted, voice.transcript,
                                         voice.request.forceBulk)} :
         voice' = [voice EXCEPT !.pc = "done", !.interpreted = interpreted,
                                !.intent = intent, !.responseText = responseText(intent)]
  /\ UNCHANGED <<lists, items, usedIds, clock, state, op, batchLog, issued, created,
                 lastMove, lastUpdate, swapCall, raised, calls, tasks, peer>>

\* speakText up to the call of the speech synthesis
SpeakText ==
  /\ voice.pc = "request"
  /\ voice.request.fn = "speakText"
  /\ LET r == voice.request
         origin == assertAllowedOrigin(r.origin, r.configured)
         thrown == IF origin # "ok" THEN origin
                   ELSE IF ~r.auth THEN "unauthenticated"
                   ELSE IF r.payload \in {"missing", "empty"} THEN "invalid-argument"
                   ELSE IF ~r.key THEN "failed-precondition"
                   ELSE ""
     IN voice' = IF thrown # "" THEN [voice EXCEPT !.pc = "error", !.error = thrown]
                 ELSE [voice EXCEPT !.pc = "synthesizing", !.called = {"textToSpeech"}]
  /\ UNCHANGED <<lists, items, usedIds, clock, state, op, batchLog, issued, created,
                 lastMove, lastUpdate, swapCall, raised, calls, tasks, peer>>

\* the speech synthesis returns, with audio or without
TtsReturns(audio) ==
  /\ voice.pc = "synthesizing"
  /\ voice' = IF audio THEN [voice EXCEPT !.pc = "done", !.responseText = "audio/mpeg"]
              ELSE [voice EXCEPT !.pc = "error", !.error = "internal"]
  /\ UNCHANGED <<lists, items, usedIds, clock, state, op, batchLog, issued, created,
                 lastMove, lastUpdate, swapCall, raised, calls, tasks, peer>>

InitParse ==
  /\ lists = <<>>
  /\ items = [l \in ListIds |-> <<>>]
  /\ usedIds = [lists |-> {}, items |-> {}, hi |-> 0]
  /\ clock = 1
  /\ state = freshClient
  /\ op = Idle
  /\ batchLog = <<>>
  /\ issued = <<>>
  /\ created = <<>>
  /\ lastMove = None
  /\ lastUpdate = None
  /\ swapCall = None
  /\ raised = None
  /\ calls = <<>>
  /\ tasks = {}
  /\ peer = None
  /\ \E request \in Requests : voice = received(request)

NextParse ==
  \/ ParseVoiceCommand
  \/ /\ voice.pc = "transcribing"
     /\ \E n \in 0..MaxSegments :
       \E segments \in [1..n -> Segments] :
         \E seps \in separatorsOf(n) :
           SttReturns(segments, seps)
  \/ /\ voice.pc = "interpreting"
     /\ \E raw \in RawOutputs : ChatReturns(raw)
  \/ SpeakText
  \/ \E audio \in BOOLEAN : TtsReturns(audio)

SpecParse == InitParse /\ [][NextParse]_vars

\* the intent the interpreter's answer was normalized to, once a request got that far
Normalized == voice.pc = "done" /\ "type" \in DOMAIN voice.interpreted

\* the heuristic split has replaced the interpreted intent
Overridden == Normalized /\ voice.intent # voice.interpreted

\* C24: the intent normalizeIntent makes of any answer of the interpreter has a type of
\* the fixed enumeration
C24_TypeInEnumeration == Normalized => voice.interpreted.type \in IntentTypes

\* C25 as stated: the interpreted intent is replaced by add_items_bulk exactly when it is
\* an add_item and the transcript splits into at least 2 entries; any other intent is
\* returned unchanged whatever forceBulk is
C25_OverrideOnlyOfAddItem ==
  Normalized =>
    /\ Overridden <=> (voice.interpreted.type = "add_item" /\ Len(voice.segments) >= 2)
    /\ Overridden => voice.intent.type = "add_items_bulk"

\* C25: the interpreted intent is replaced by add_items_bulk, with one entry per segment,
\* exactly when it is not an add_items_bulk itself, the transcript splits into at least 2
\* entries, and forceBulk is set or the intent is an add_item
C25_OverrideOfAddItemOrForced ==
  Normalized =>
    /\ Overridden <=> /\ voice.interpreted.type # "add_items_bulk"
                      /\ Len(voice.segments) >= 2
                      /\ voice.request.forceBulk \/ voice.interpreted.type = "add_item"
    /\ Overridden => /\ voice.intent.type = "add_items_bulk"
                     /\ Len(voice.intent.items) = Len(voice.segments)

C25_Witness ==
  /\ Overridden
  /\ voice.request.forceBulk
  /\ voice.interpreted.type = "delete_item"
  /\ voice.intent.type = "add_items_bulk"

\* the entries the app adds for the items of a bulk intent
voiceEntries(entries) == [n \in DOMAIN entries |-> normalizeVoiceAddEntry(entries[n])]

SampleTranscript ==
  Milk \o <<",", " ">> \o <<"2", " ", "k", "g", " ", "r", "i", "c", "e">>
       \o <<",", " ", "a", "n", "d", " ">> \o Bread

\* the entry a segment stands for
entryOfSegment(segment) ==
  IF segment = Milk THEN [kind |-> "entry", text |-> Milk, quantity |-> 1, unit |-> <<"L">>]
  ELSE IF segment = Bread THEN [kind |-> "entry", text |-> Bread, quantity |-> 1, unit |-> <<>>]
  ELSE [kind |-> "entry", text |-> Rice, quantity |-> 2, unit |-> Kg]

\* C26 as stated: the entries of the heuristic split come in the order of the segments,
\* each with a quantity, and "milk, 2 kg rice, and bread" yields milk 1, rice 2 kg and
\* bread 1, the first and the last without a unit
C26_SampleYieldsMilkWithoutUnit ==
  Overridden =>
    /\ Len(voice.intent.items) = Len(voice.segments)
    /\ \A n \in DOMAIN voice.intent.items :
         /\ voiceEntries(voice.intent.items)[n].text = entryOfSegment(voice.segments[n]).text
         /\ voiceEntries(voice.intent.items)[n].quantity >= 1
    /\ voice.transcript = SampleTranscript =>
         voiceEntries(voice.intent.items) =
           << [kind |-> "entry", text |-> Milk, quantity |-> 1, unit |-> <<>>],
              [kind |-> "entry", text |-> Rice, quantity |-> 2, unit |-> Kg],
              [kind |-> "entry", text |-> Bread, quantity |-> 1, unit |-> <<>>] >>

\* C26: the entries of the heuristic split are those of the segments between ',' and
\* ' and ', in their order, each with a quantity (1 when the segment names none), a milk
\* entry without quantity and unit with the unit L
C26_EntriesOfTheSegments ==
  Overridden =>
    voiceEntries(voice.intent.items) =
      [n \in DOMAIN voice.segments |-> entryOfSegment(voice.segments[n])]

C26_Witness ==
  /\ Overridden
  /\ voice.transcript = SampleTranscript
  /\ Len(voice.intent.items) = 3

\* the units an intent carries
unitsOf(intent) ==
  (IF "unit" \in DOMAIN intent THEN {intent.unit} ELSE {})
    \cup (IF "items" \in DOMAIN intent
            THEN {intent.items[n].unit :
                    n \in {k \in DOMAIN intent.items : "unit" \in DOMAIN intent.items[k]}}
            ELSE {})

\* C27: every unit of a returned intent is trimmed, and is the canonical form when it is
\* a synonym of one in any case
C27_UnitsNormalized ==
  voice.pc = "done" /\ "type" \in DOMAIN voice.intent =>
    \A unit \in unitsOf(voice.intent) :
      /\ unit = trim(unit)
      /\ toLowerCase(unit) \in KgWords => unit = <<"k", "g">>
      /\ toLowerCase(unit) \in GramWords => unit = <<"g">>
      /\ toLowerCase(unit) \in LitreWords => unit = <<"L">>
      /\ toLowerCase(unit) \in MlWords => unit = <<"m", "l">>

\* the request is authenticated and its origin, if it presents one, is on the allow-list
Admitted ==
  /\ voice.request.auth
  /\ voice.request.origin = "none"
       \/ (voice.request.origin = "allowed" /\ voice.request.configured)

RejectionCodes == {"permission-denied", "failed-precondition", "unauthenticated"}

\* C29 as stated: a service is called only for an authenticated request that presents an
\* allow-listed origin, and every other request ends in a typed error with no service
\* called
C29_ServedOnlyFromAllowedOrigin ==
  voice.pc # "request" =>
    \/ voice.request.auth /\ voice.request.origin = "allowed"
    \/ /\ voice.pc = "error"
       /\ voice.error \in RejectionCodes \cup {"invalid-argument"}
       /\ voice.called = {}

\* C29: a service is called only for an authenticated request whose origin is on the
\* allow-list or that presents no origin; every other request ends in a typed error with
\* no service called
C29_ServedOnlyWhenAdmitted ==
  voice.pc # "request" =>
    \/ Admitted
    \/ voice.pc = "error" /\ voice.error \in RejectionCodes /\ voice.called = {}

C29_Witness ==
  /\ voice.pc = "error"
  /\ voice.request.auth
  /\ voice.request.origin = "disallowed"
  /\ voice.request.configured
  /\ voice.error = "permission-denied"
  /\ voice.called = {}

(***************************************************************************)
(* Startup of a client that remembers a selected list: the lists          *)
(* subscription delivers its first snapshot either from the server or,    *)
(* while the server has not been reached, from the empty local cache.     *)
(***************************************************************************)
RememberedList == 2

\* the first lists snapshot comes from the local cache, which holds no list
ListsSnapshotFromCache ==
  /\ ~state.listsLoaded
  /\ LET r == onListsSnapshot(state, 1, <<>>, Cardinality(tasks) + 1)
     IN state' = r.st /\ tasks' = tasks \cup r.launch
  /\ UNCHANGED <<lists, items, usedIds, clock, op, batchLog, issued, created,
                 lastMove, lastUpdate, swapCall, raised, calls, peer, voice>>

\* the store holds the Inbox and the remembered list "Shop", possibly a third list and
\* an item; the client has just been loaded with the id of "Shop" in its local storage
InitStartup ==
  /\ \E n \in 2..3, k \in 0..1 :
       /\ lists = [l \in 1..n |->
                     newListDoc(IF l = 1 THEN "Inbox" ELSE "Shop", "ann", "ann", l = 1, 1, 0)]
       /\ items = [l \in ListIds |->
                     IF l = RememberedList /\ k = 1
                       THEN (1 :> newItemDoc(Milk, "ann", "ann", 1, 0)) ELSE <<>>]
       /\ usedIds = [lists |-> 1..n, items |-> 1..k, hi |-> n]
  /\ clock = MaxClock + 1
  /\ \E user \in {"", "bob", "eve"} :
       state = [freshClient EXCEPT !.user = user, !.storedListId = RememberedList]
  /\ peer = None
  /\ op = Idle
  /\ batchLog = <<>>
  /\ issued = <<>>
  /\ created = <<>>
  /\ lastMove = None
  /\ lastUpdate = None
  /\ swapCall = None
  /\ raised = None
  /\ calls = <<>>
  /\ tasks = {}
  /\ voice = None

NextStartup ==
  \/ ListsSnapshotFromCache
  \/ ListsSnapshot
  \/ ItemsSnapshot
  \/ \E user \in {"", "bob", "eve"} : AuthChange(user)
  \/ \E t \in tasks : TaskCreateList(t)

SpecStartup == InitStartup /\ [][NextStartup]_vars

\* C30: until the remembered list is the active one its id stays in the local storage,
\* and once a lists snapshot that contains it has been handled it is the active list
C30_RememberedListBecomesActive ==
  /\ state.currentListId # RememberedList => state.storedListId = RememberedList
  /\ state.listsLoaded /\ hasList(state.lists, RememberedList) =>
       state.currentListId = RememberedList

(***************************************************************************)
(* Two clients on one store.  Both are signed in and have the list "Shop"  *)
(* selected; client 1 runs one repository call await by await while the    *)
(* handlers of client 2 write to the same list from the snapshots that     *)
(* client 2 was last delivered.                                            *)
(***************************************************************************)

\* the state singleton of a client that is signed in, has been delivered the present
\* lists and has the list selected, with the present items of the list delivered
loadedClient(user, listId) ==
  [freshClient EXCEPT !.user = user,
                      !.lists = mapList(lists, clock),
                      !.listsLoaded = TRUE,
                      !.currentListId = listId,
                      !.storedListId = listId,
                      !.items = mapItems(items[listId], clock),
                      !.listeners = {[h |-> 1, listId |-> listId]},
                      !.unsubscribeItems = 1,
                      !.itemsOf = listId]

\* newItemForm submit handler of client 2: createItem for the list it has selected
PeerNewItemSubmit(text) ==
  /\ peer.user # "" /\ peer.currentListId # 0
  /\ \E id \in SmallItemIds \ usedIds.items :
       /\ createItem(peer.currentListId, id, text, peer.user, getUserLabel(peer.user), 0)
       /\ lastUpdate' = [kind |-> "createItem", listId |-> peer.currentListId, id |-> id,
                         during |-> op.pc]
  /\ UNCHANGED <<clock, state, op, batchLog, lastMove, swapCall, raised, calls, tasks,
                 peer, voice>>

\* itemHandlers.onToggle / onEditSave / onQuantityChange of client 2
PeerItemChange(itemId, data) ==
  /\ peer.user # "" /\ peer.currentListId # 0
  /\ updateItem(peer.currentListId, itemId, data, getUserLabel(peer.user))
  /\ UNCHANGED <<usedIds, clock, state, op, batchLog, issued, created, lastMove, swapCall,
                 raised, calls, tasks, peer, voice>>

\* an item created at millisecond 2, by the current client or by an earlier one
LaterShapes ==
  {without(newItemDoc("rice", "ann", "ann", 2, 0), dropped) :
     dropped \in {{}, {"quantity"}, {"order", "quantity", "createdByName", "updatedByName"}}}

\* the Inbox and the list "Shop", which holds a current item and a later item of any age
InitRace ==
  /\ lists = (1 :> newListDoc("Inbox", "ann", "ann", TRUE, 1, 0))
               @@ (2 :> newListDoc("Shop", "ann", "ann", FALSE, 2, 0))
  /\ \E later \in LaterShapes :
       items = [l \in ListIds |->
                  IF l = 2 THEN (1 :> newItemDoc("milk", "ann", "ann", 1, 0)) @@ (2 :> later)
                  ELSE <<>>]
  /\ usedIds = [lists |-> {1, 2}, items |-> {1, 2}, hi |-> 2]
  /\ clock = MaxClock + 1
  /\ state = loadedClient("bob", 2)
  /\ peer = loadedClient("eve", 2)
  /\ op = Idle
  /\ batchLog = <<>>
  /\ issued = <<>>
  /\ created = <<>>
  /\ lastMove = None
  /\ lastUpdate = None
  /\ swapCall = None
  /\ raised = None
  /\ calls = <<>>
  /\ tasks = {}
  /\ voice = None

NextRace ==
  \/ \E keepItems \in BOOLEAN : OnConfirmDelete(keepItems)
  \/ OpGetDocs
  \/ OpEnsureDefault
  \/ OpCommitChunk
  \/ OpFinal
  \/ OpReturn
  \/ PeerNewItemSubmit("bread")
  \/ \E i \in SmallItemIds : PeerItemChange(i, [quantity |-> 3])
  \/ PeerListsSnapshot

SpecRace == InitRace /\ [][NextRace]_vars

\* ------------------------------------------------------------------ C31
\* C31: no item is orphaned: once no operation is in flight, an item that another client
\* created in the list between the read of deleteListWithItems and its deletion of the
\* list is not stored under a list document that does not exist.
C31_NoItemOrphaned ==
  (op.pc \in {"idle", "resolved", "rejected"}
     /\ lastUpdate.kind = "createItem"
     /\ lastUpdate.during \in {"ensureDefault", "commit", "final"})
    => \/ lastUpdate.listId \in DOMAIN lists
       \/ lastUpdate.id \notin DOMAIN items[lastUpdate.listId]

(***************************************************************************)
(* A session next to clients of an earlier version of the application:     *)
(* the store of specification SpecGuard, to which such a client may add an *)
(* item while the client under test is running.                            *)
(***************************************************************************)

\* an earlier version of the application adds an item to the list: the document it
\* stores has an order and no quantity
LegacyItemAdded(l) ==
  /\ l \in DOMAIN lists
  /\ usedIds.hi <= MaxItems
  /\ LET id == usedIds.hi + 1 IN
       /\ items' = [items EXCEPT ![l] =
                      setDoc(@, id, without(newItemDoc("rice", "ann", "ann", clock, 0),
                                            {"quantity"}))]
       /\ usedIds' = [usedIds EXCEPT !.items = @ \cup {id}, !.hi = id]
  /\ UNCHANGED <<lists, clock, state, op, batchLog, issued, created, lastMove, lastUpdate,
                 swapCall, raised, calls, tasks, peer, voice>>

\* the handlers that launch calls run while fewer than MaxLaunches calls were launched
NextSession ==
  \/ Cardinality(tasks) < MaxLaunches /\ \E user \in {"", "bob"} : AuthChange(user)
  \/ Cardinality(tasks) < MaxLaunches /\ ListsSnapshot
  \/ Cardinality(tasks) < MaxLaunches /\ ItemsSnapshot
  \/ \E l \in ListIds : SelectList(l)
  \/ \E t \in tasks : TaskGetDocs(t)
  \/ \E t \in tasks : TaskCommit(t)
  \/ \E t \in tasks : TaskTouch(t)
  \/ \E t \in tasks : TaskFails(t)
  \/ \E l \in ListIds : LegacyItemAdded(l)

\* the store of InitGuard, in which the order of the list "Shop" may be NaN
InitSession ==
  /\ \E order \in {makeOrder(2, 0), NaN} :
       lists = (1 :> newListDoc("Inbox", "ann", "ann", TRUE, 1, 0))
                 @@ (2 :> [newListDoc("Shop", "ann", "ann", FALSE, 2, 0) EXCEPT !.order = order])
  /\ \E a \in OldShapes, b \in OldShapes :
       items = [l \in ListIds |->
                  IF l = 1 THEN (1 :> newItemDoc("milk", "ann", "ann", 1, 0)) @@ (2 :> a)
                  ELSE IF l = 2 THEN (3 :> b)
                  ELSE <<>>]
  /\ usedIds = [lists |-> {1, 2}, items |-> {1, 2, 3}, hi |-> 3]
  /\ clock = MaxClock + 1
  /\ state = freshClient
  /\ op = Idle
  /\ batchLog = <<>>
  /\ issued = <<>>
  /\ created = <<>>
  /\ lastMove = None
  /\ lastUpdate = None
  /\ swapCall = None
  /\ raised = None
  /\ calls = <<>>
  /\ tasks = {}
  /\ peer = None
  /\ voice = None

SpecSession == InitSession /\ [][NextSession]_vars

\* ------------------------------------------------------------------ C32
\* the client is signed in and the items it holds include one decoded without order or
\* without quantity
qualifying(st) ==
  /\ st.user # "" /\ st.currentListId # 0
  /\ \E n \in DOMAIN st.items : st.items[n].orderMissing \/ st.items[n].quantityMissing

\* a backfillItemOrder run of client 1 for the list is in flight
runInFlight(l) ==
  \E t \in tasks : t.client = 1 /\ t.kind = "backfillItemOrder" /\ t.listId = l /\ InFlight(t)

\* C32: every items snapshot that is delivered while a user is signed in, contains an item
\* with missing order or quantity and finds no backfill of the list in flight starts
\* backfillItemOrder for the list, also when an earlier run for the list has succeeded in
\* this session.
C32_QualifyingSnapshotStartsBackfill ==
  [][(/\ state'.itemsOf # 0
      /\ state'.items # state.items \/ state'.itemsOf # state.itemsOf
      /\ qualifying(state')
      /\ ~runInFlight(state.currentListId))
       => \E t \in tasks' \ tasks :
            t.kind = "backfillItemOrder" /\ t.listId = state.currentListId]_vars

\* ------------------------------------------------------------------ C33
\* the runs of client 1 of the engine (for the list, if it is the item engine)
runsOf(kind, l) == {t \in tasks : t.client = 1 /\ t.kind = kind /\ t.listId = l}

\* no guard is held by a run that has rejected: the flag of the list engine is set only
\* while a run of it is in flight, and a list whose item run rejected is in
\* backfilledItemLists only if a later run for it was started
GuardsOfRejectedRunsCleared ==
  /\ state.backfillListsInFlight <=> \E u \in runsOf("backfillListOrder", 0) : InFlight(u)
  /\ \A t \in tasks :
       (t.client = 1 /\ t.kind = "backfillItemOrder" /\ t.pc = "failed"
          /\ t.listId \in state.backfilledItemLists)
         => \E u \in runsOf("backfillItemOrder", t.listId) : u.n > t.n

\* an items snapshot with a record missing a field is delivered to the signed-in client
\* after the only run for the list has rejected: a new run is launched
ItemRunRetried ==
  (/\ state'.itemsOf # 0
   /\ state'.items # state.items \/ state'.itemsOf # state.itemsOf
   /\ qualifying(state')
   /\ runsOf("backfillItemOrder", state.currentListId) # {}
   /\ \A u \in runsOf("backfillItemOrder", state.currentListId) : u.pc = "failed")
    => \E t \in tasks' \ tasks :
         t.kind = "backfillItemOrder" /\ t.listId = state.currentListId /\ InFlight(t)

\* the signed-in client is delivered lists with a list missing its order, or a user signs
\* in while it holds such lists, after a run of the list engine has rejected and while
\* none is in flight: a new run is launched
ListRunRetried ==
  (/\ state'.lists # state.lists \/ state'.user # state.user
   /\ state'.user # ""
   /\ \E n \in DOMAIN state'.lists : state'.lists[n].orderMissing
   /\ \E u \in runsOf("backfillListOrder", 0) : u.pc = "failed"
   /\ \A u \in runsOf("backfillListOrder", 0) : ~InFlight(u))
    => \E t \in tasks' \ tasks : t.kind = "backfillListOrder" /\ InFlight(t)

\* C33: a failed backfill can be retried: when a backfillListOrder or backfillItemOrder
\* run rejects, its guard (backfillListsInFlight, or the entry of the list in
\* backfilledItemLists) is cleared, so that no guard stays set by a rejected run and the
\* next qualifying snapshot starts a new run.
C33_FailedBackfillCanBeRetried ==
  /\ []GuardsOfRejectedRunsCleared
  /\ [][ItemRunRetried]_vars
  /\ [][ListRunRetried]_vars

\* a run of the list engine has rejected and a later run of it is in flight
C33_Witness ==
  \E t \in runsOf("backfillListOrder", 0), u \in runsOf("backfillListOrder", 0) :
    t.pc = "failed" /\ InFlight(u) /\ u.n > t.n /\ state.backfillListsInFlight

\* ------------------------------------------------------------------ C34
\* the creations of the Inbox that client 1 has in flight: the ensureDefaultListId calls
\* launched by maybeEnsureDefaultList, and the one deleteListWithItems awaits when it was
\* given no default list id
defaultCreationsInFlight ==
  Cardinality({t \in tasks : t.client = 1 /\ t.kind = "ensureDefaultListId" /\ InFlight(t)})
  + (IF op.kind = "deleteListWithItems" /\ op.pc = "ensureDefault" /\ op.defaultArg = 0
       THEN 1 ELSE 0)

\* C34: within one client at most one creation of the default list is in flight at any
\* time, across maybeEnsureDefaultList (lists snapshots and auth changes) and
\* deleteListWithItems with keepItems and without a default list id.
C34_OneDefaultCreationInFlight == defaultCreationsInFlight <= 1

(***************************************************************************)
(* Consecutive voice turns of one client.  pendingClarification outlives   *)
(* the turn that set it; the user may sign out and in and select another   *)
(* list while a command is interpreted or executed.                        *)
(***************************************************************************)

\* the intents of the turns: a clarification, a readout, an item and a pair of items to add
TurnIntents ==
  {i \in VoiceIntents :
     \/ i.type \in {"clarify", "read_items"}
     \/ i.type = "add_item" /\ DOMAIN i = {"type", "itemText"} /\ i.itemText = Milk
     \/ i.type = "add_items_bulk" /\ DOMAIN i = {"type", "items"} /\ Len(i.items) = 2}

\* the hold-to-talk control is pressed after the previous turn is over, and the recording
\* starts (startVoiceRecording returns at once when nobody is signed in)
NextTurn ==
  /\ voice.pc = "over"
  /\ voice.turn < MaxTurns
  /\ state.user # ""
  /\ voice' = [listening EXCEPT !.pending = voice.pending, !.turn = voice.turn + 1]
  /\ UNCHANGED <<lists, items, usedIds, clock, state, op, batchLog, issued, created,
                 lastMove, lastUpdate, swapCall, raised, calls, tasks, peer>>

\* listHandlers.onSelectList while a voice turn may be running
SelectListDuringTurn(listId) ==
  /\ state.currentListId # listId
  /\ hasList(state.lists, listId)
  /\ state' = setActiveList(state, listId)
  /\ UNCHANGED <<lists, items, usedIds, clock, op, batchLog, issued, created,
                 lastMove, lastUpdate, swapCall, raised, calls, tasks, peer, voice>>

\* the Inbox and the list "Shop"; the client is signed in and has "Shop" selected
InitTurns ==
  /\ lists = (1 :> newListDoc("Inbox", "ann", "ann", TRUE, 1, 0))
               @@ (2 :> newListDoc("Shop", "ann", "ann", FALSE, 2, 0))
  /\ items = [l \in ListIds |->
                IF l = 2 THEN (1 :> newItemDoc(Rice, "ann", "ann", 1, 0)) ELSE <<>>]
  /\ usedIds = [lists |-> {1, 2}, items |-> {1}, hi |-> 1]
  /\ clock = MaxClock + 1
  /\ state = loadedClient("bob", 2)
  /\ op = Idle
  /\ batchLog = <<>>
  /\ issued = <<>>
  /\ created = <<>>
  /\ lastMove = None
  /\ lastUpdate = None
  /\ swapCall = None
  /\ raised = None
  /\ calls = <<>>
  /\ tasks = {}
  /\ peer = None
  /\ voice = listening

NextTurns ==
  \/ OnStop(TRUE)
  \/ \E intent \in TurnIntents, multi \in BOOLEAN : ParseReturns(intent, multi)
  \/ \E intent \in TurnIntents : RetryReturns(intent)
  \/ ParseThrows
  \/ VoiceCall
  \/ VoiceAwait
  \/ Speak(TRUE)
  \/ OpWrite
  \/ OpFinal
  \/ \E user \in {"", "bob"} : AuthChange(user)
  \/ \E l \in ListIds : SelectListDuringTurn(l)
  \/ NextTurn

SpecTurns == InitTurns /\ [][NextTurns]_vars

\* ------------------------------------------------------------------ C35
\* the turn has settled on a clarify intent
Clarifying == voice.intent # None /\ voice.intent.type = "clarify" /\ voice.pc \in {"speak", "over"}

\* C35: a turn that resolves to a clarify intent executes no mutation;
\* pendingClarification is null once a non-clarify intent has been taken up, and it is
\* null in every state in which no user is signed in, also when the user signed out while
\* the command was being interpreted.
C35_ClarificationProtocol ==
  /\ Clarifying => voice.out = None /\ voice.k = 0 /\ op = Idle
  /\ HasRun => ~voice.pending
  /\ state.user = "" => ~voice.pending

(***************************************************************************)
(* Editing next to another client.  Client 1 edits the text of an item of  *)
(* the selected list while client 2 deletes and adds items of that list.   *)
(***************************************************************************)

\* itemHandlers.onEditStart, for an item that is rendered
OnEditStart(itemId) ==
  /\ \E n \in DOMAIN state.items : state.items[n].id = itemId
  /\ state.editingItemId # itemId
  /\ state' = [state EXCEPT !.editingItemId = itemId]
  /\ UNCHANGED <<lists, items, usedIds, clock, op, batchLog, issued, created, lastMove,
                 lastUpdate, swapCall, raised, calls, tasks, peer, voice>>

\* itemHandlers.onEditSave of the item that is rendered in edit mode: updateItem with the
\* trimmed text; the edit state is cleared when updateItem has not thrown
OnEditSave(text) ==
  /\ state.user # "" /\ state.currentListId # 0
  /\ state.editingItemId # 0
  /\ updateItem(state.currentListId, state.editingItemId, [text |-> text],
                getUserLabel(state.user))
  /\ state' = IF state.editingItemId \in DOMAIN items[state.currentListId]
                 /\ state.currentListId \in DOMAIN lists
                THEN [state EXCEPT !.editingItemId = 0] ELSE state
  /\ UNCHANGED <<usedIds, clock, op, batchLog, issued, created, lastMove, swapCall, raised,
                 calls, tasks, peer, voice>>

\* itemHandlers.onEditCancel
OnEditCancel ==
  /\ state.editingItemId # 0
  /\ state' = [state EXCEPT !.editingItemId = 0]
  /\ UNCHANGED <<lists, items, usedIds, clock, op, batchLog, issued, created, lastMove,
                 lastUpdate, swapCall, raised, calls, tasks, peer, voice>>

\* itemHandlers.onDelete of client 2: deleteItem, that is deleteDoc and then touchList
PeerDelete(itemId) ==
  /\ peer.user # "" /\ peer.currentListId # 0
  /\ itemId \in DOMAIN items[peer.currentListId]
  /\ items' = [items EXCEPT ![peer.currentListId] = deleteDoc(@, itemId)]
  /\ lists' = IF peer.currentListId \in DOMAIN lists
                THEN touchList(lists, peer.currentListId, getUserLabel(peer.user), clock)
                ELSE lists
  /\ lastUpdate' = None
  /\ UNCHANGED <<usedIds, clock, state, op, batchLog, issued, created, lastMove, swapCall,
                 raised, calls, tasks, peer, voice>>

\* the Inbox and the list "Shop" with two items; both clients have "Shop" selected
InitEdit ==
  /\ lists = (1 :> newListDoc("Inbox", "ann", "ann", TRUE, 1, 0))
               @@ (2 :> newListDoc("Shop", "ann", "ann", FALSE, 2, 0))
  /\ items = [l \in ListIds |->
                IF l = 2 THEN (1 :> newItemDoc("milk", "ann", "ann", 1, 0))
                              @@ (2 :> newItemDoc("rice", "ann", "ann", 2, 0))
                ELSE <<>>]
  /\ usedIds = [lists |-> {1, 2}, items |-> {1, 2}, hi |-> 2]
  /\ clock = MaxClock + 1
  /\ state = loadedClient("bob", 2)
  /\ peer = loadedClient("eve", 2)
  /\ op = Idle
  /\ batchLog = <<>>
  /\ issued = <<>>
  /\ created = <<>>
  /\ lastMove = None
  /\ lastUpdate = None
  /\ swapCall = None
  /\ raised = None
  /\ calls = <<>>
  /\ tasks = {}
  /\ voice = None

NextEdit ==
  \/ \E i \in SmallItemIds : OnEditStart(i)
  \/ OnEditSave("bread")
  \/ OnEditCancel
  \/ ItemsSnapshot
  \/ \E l \in ListIds : SelectList(l)
  \/ \E i \in SmallItemIds : PeerDelete(i)
  \/ PeerNewItemSubmit("eggs")

SpecEdit == InitEdit /\ [][NextEdit]_vars

\* ------------------------------------------------------------------ C36
\* C36: the item being edited is one of the items the client holds, so that the items
\* snapshot that no longer contains it has cleared the edit state; and a save issued for
\* an item that no longer exists creates no document.
C36_EditOfVanishedItemCleared ==
  /\ state.editingItemId # 0 => \E n \in DOMAIN state.items : state.items[n].id = state.editingItemId
  /\ (lastUpdate.kind = "updateItem" /\ lastUpdate.before = NoDoc)
       => lastUpdate.id \notin DOMAIN items[lastUpdate.listId]

\* the item being edited was deleted by client 2 and the save of the edit has been
\* refused: the store holds no such item, and the snapshot without it is still to come
C36_Witness ==
  /\ lastUpdate.kind = "updateItem" /\ lastUpdate.before = NoDoc
  /\ state.editingItemId = lastUpdate.id
  /\ lastUpdate.listId = state.currentListId
  /\ lastUpdate.id \notin DOMAIN items[lastUpdate.listId]
  /\ mapItems(items[state.currentListId], clock) # state.items

(***************************************************************************)
(* The hold-to-talk control.  voice holds the module variables             *)
(* recordingActive and mediaRecorder (0 is null, otherwise the number of   *)
(* the recorder), the MediaRecorder objects created so far with their      *)
(* position ("recording", "stopped" once stop() was called and the stop    *)
(* event is pending, "processing" while mediaRecorder.onstop awaits        *)
(* processVoiceCommand, "over" after its finally block), the number of     *)
(* getUserMedia calls that are pending, and whether the control is held.   *)
(***************************************************************************)

\* the recorders that are capturing
activeRecorders == {r \in DOMAIN voice.recorders : voice.recorders[r] = "recording"}

\* pointerdown: startVoiceRecording up to "await getUserMedia"
PointerDown ==
  /\ ~voice.held
  /\ voice.presses < MaxPresses
  /\ voice' = [voice EXCEPT !.held = TRUE,
                            !.presses = @ + 1,
                            !.grants = IF ~voice.recordingActive /\ state.user # ""
                                         THEN @ + 1 ELSE @]
  /\ UNCHANGED <<lists, items, usedIds, clock, state, op, batchLog, issued, created,
                 lastMove, lastUpdate, swapCall, raised, calls, tasks, peer>>

\* pointerup, pointerleave or pointercancel: stopVoiceRecording; stop() of a recorder that
\* is not recording changes nothing
PointerUp ==
  /\ voice.held
  /\ voice' = [voice EXCEPT
                 !.held = FALSE,
                 !.recorders = IF voice.recordingActive /\ voice.mediaRecorder # 0
                                  /\ @[voice.mediaRecorder] = "recording"
                                 THEN [@ EXCEPT ![voice.mediaRecorder] = "stopped"] ELSE @]
  /\ UNCHANGED <<lists, items, usedIds, clock, state, op, batchLog, issued, created,
                 lastMove, lastUpdate, swapCall, raised, calls, tasks, peer>>

\* getUserMedia resolves: the rest of startVoiceRecording
MicrophoneGranted ==
  /\ voice.grants > 0
  /\ voice' = [voice EXCEPT !.grants = @ - 1,
                            !.recorders = Append(@, "recording"),
                            !.mediaRecorder = Len(voice.recorders) + 1,
                            !.recordingActive = TRUE]
  /\ UNCHANGED <<lists, items, usedIds, clock, state, op, batchLog, issued, created,
                 lastMove, lastUpdate, swapCall, raised, calls, tasks, peer>>

\* getUserMedia rejects: startVoiceRecording throws
MicrophoneDenied ==
  /\ voice.grants > 0
  /\ voice' = [voice EXCEPT !.grants = @ - 1]
  /\ UNCHANGED <<lists, items, usedIds, clock, state, op, batchLog, issued, created,
                 lastMove, lastUpdate, swapCall, raised, calls, tasks, peer>>

\* the stop event of recorder r: mediaRecorder.onstop up to its await
RecorderOnStop(r) ==
  /\ voice.recorders[r] = "stopped"
  /\ voice' = [voice EXCEPT !.recorders[r] = "processing"]
  /\ UNCHANGED <<lists, items, usedIds, clock, state, op, batchLog, issued, created,
                 lastMove, lastUpdate, swapCall, raised, calls, tasks, peer>>

\* the command of recorder r has been processed: the finally block of mediaRecorder.onstop
RecorderFinally(r) ==
  /\ voice.recorders[r] = "processing"
  /\ voice' = [voice EXCEPT !.recorders[r] = "over",
                            !.mediaRecorder = 0,
                            !.recordingActive = FALSE]
  /\ UNCHANGED <<lists, items, usedIds, clock, state, op, batchLog, issued, created,
                 lastMove, lastUpdate, swapCall, raised, calls, tasks, peer>>

\* a client that has just loaded the page, signed in or not
InitRecorder ==
  /\ lists = (1 :> newListDoc("Inbox", "ann", "ann", TRUE, 1, 0))
  /\ items = EmptyStore
  /\ usedIds = [lists |-> {1}, items |-> {}, hi |-> 0]
  /\ clock = MaxClock + 1
  /\ \E user \in {"", "bob"} : state = [freshClient EXCEPT !.user = user]
  /\ op = Idle
  /\ batchLog = <<>>
  /\ issued = <<>>
  /\ created = <<>>
  /\ lastMove = None
  /\ lastUpdate = None
  /\ swapCall = None
  /\ raised = None
  /\ calls = <<>>
  /\ tasks = {}
  /\ peer = None
  /\ voice = [held |-> FALSE, presses |-> 0, grants |-> 0, recordingActive |-> FALSE,
              mediaRecorder |-> 0, recorders |-> <<>>]

NextRecorder ==
  \/ PointerDown
  \/ PointerUp
  \/ MicrophoneGranted
  \/ MicrophoneDenied
  \/ \E r \in DOMAIN voice.recorders : RecorderOnStop(r)
  \/ \E r \in DOMAIN voice.recorders : RecorderFinally(r)
  \/ \E user \in {"", "bob"} : AuthChange(user)

SpecRecorder == InitRecorder /\ [][NextRecorder]_vars

\* ------------------------------------------------------------------ C37
\* C37: whatever the interleaving of presses and releases of the hold-to-talk control with
\* the grant of the microphone, at most one MediaRecorder is recording at a time, and no
\* MediaRecorder is recording once the control has been released.
C37_ReleaseEndsCapture ==
  /\ Cardinality(activeRecorders) <= 1
  /\ activeRecorders # {} => voice.held

\* ============================================== specification SpecMoves
\* two clients have the same list of three items open and move items

\* itemHandlers.onMoveItem of client 2: the swap is computed from the snapshot it holds
PeerMoveItem(itemId, direction) ==
  /\ peer.user # "" /\ peer.currentListId # 0
  /\ LET index == findIndex(peer.items, itemId)
         targetIndex == IF direction = "up" THEN index - 1 ELSE index + 1
     IN /\ index >= 1
        /\ targetIndex >= 1 /\ targetIndex <= Len(peer.items)
        /\ LET current == peer.items[index]
               target == peer.items[targetIndex]
               orders == swapOrders(current.order, target.order, direction)
               updatedCurrent == [current EXCEPT !.order = orders.current]
               updatedTarget == [target EXCEPT !.order = orders.target]
           IN /\ peer' = [peer EXCEPT !.items =
                            [@ EXCEPT ![index] = updatedTarget, ![targetIndex] = updatedCurrent]]
              /\ persistItemOrder(peer.currentListId,
                                  <<[id |-> updatedCurrent.id, order |-> updatedCurrent.order],
                                    [id |-> updatedTarget.id, order |-> updatedTarget.order]>>,
                                  getUserLabel(peer.user))
  /\ UNCHANGED <<usedIds, clock, state, op, issued, created, lastMove, lastUpdate, swapCall,
                 raised, calls, tasks, voice>>

\* the items listener of client 2 delivers the stored collection
PeerItemsSnapshot ==
  /\ peer.currentListId # 0
  /\ peer.items # mapItems(items[peer.currentListId], clock)
  /\ peer' = [peer EXCEPT !.items = mapItems(items[peer.currentListId], clock)]
  /\ UNCHANGED <<lists, items, usedIds, clock, state, op, batchLog, issued, created,
                 lastMove, lastUpdate, swapCall, raised, calls, tasks, voice>>

\* the order values stored in list l, as a bag
storedOrders(l) ==
  LET coll == items[l]
      values == {coll[i].order : i \in DOMAIN coll}
  IN [v \in values |-> Cardinality({i \in DOMAIN coll : coll[i].order = v})]

\* the Inbox with three items created at three different milliseconds
InitMoves ==
  /\ lists = (1 :> newListDoc("Inbox", "ann", "ann", TRUE, 1, 0))
  /\ items = [l \in ListIds |->
                IF l = 1 THEN (1 :> newItemDoc("milk", "ann", "ann", 1, 0))
                              @@ (2 :> newItemDoc("rice", "ann", "ann", 2, 0))
                              @@ (3 :> newItemDoc("eggs", "ann", "ann", 3, 0))
                ELSE <<>>]
  /\ usedIds = [lists |-> {1}, items |-> {1, 2, 3}, hi |-> 3]
  /\ clock = MaxClock + 1
  /\ state = loadedClient("bob", 1)
  /\ peer = loadedClient("eve", 1)
  /\ op = Idle
  /\ batchLog = <<>>
  /\ issued = <<>>
  /\ created = <<>>
  /\ lastMove = None
  /\ lastUpdate = None
  /\ swapCall = None
  /\ raised = None
  /\ calls = <<>>
  /\ tasks = {}
  /\ voice = None

\* no two items of list 1 share a stored order value; the moves are followed up to the
\* first duplicate, after which swapOrders would produce ever new values
NoDuplicateYet ==
  \A i, j \in DOMAIN items[1] : i # j => items[1][i].order # items[1][j].order

NextMoves ==
  \/ NoDuplicateYet /\ \E i \in SmallItemIds, d \in Directions : OnMoveItem(i, d)
  \/ NoDuplicateYet /\ \E i \in SmallItemIds, d \in Directions : VoiceMoveItem(i, d)
  \/ NoDuplicateYet /\ \E i \in SmallItemIds, d \in Directions : PeerMoveItem(i, d)
  \/ ItemsSnapshot
  \/ PeerItemsSnapshot

SpecMoves == InitMoves /\ [][NextMoves]_vars

\* ------------------------------------------------------------------ C38
\* C38: the order values of a collection that were pairwise distinct are pairwise distinct
\* after any moves, the same values permuted, also when two clients move overlapping
\* pairs from the same snapshot and when a voice move starts from a stale snapshot.
C38_MovesKeepOrdersUnique ==
  storedOrders(1) = [v \in {makeOrder(1, 0), makeOrder(2, 0), makeOrder(3, 0)} |-> 1]

\* ------------------------------------------------------------------ C39
\* C39: every createItem call of one add_items_bulk intent is made for the list that was
\* selected when execution of the intent began, also when another list is selected while
\* the loop awaits a createItem.
C39_BulkAddInOneList ==
  (/\ voice.intent # None /\ voice.intent.type = "add_items_bulk"
   /\ voice.pc = "await" /\ op.kind = "createItem")
    => op.listId = voice.before.currentListId

\* ========================================== specification SpecOverwrite
\* client 1 runs backfillItemOrder on the list "Shop" while client 2, which has the same
\* list open, moves items and sets quantities

NextOverwrite ==
  \/ CallBackfill("backfillItemOrder", state.currentListId, state.user)
  \/ OpGetDocs
  \/ OpCommitChunk
  \/ OpFinal
  \/ OpReturn
  \/ \E i \in SmallItemIds : findIndex(peer.items, i) >= 1 /\ PeerItemChange(i, [quantity |-> 3])
  \/ \E i \in SmallItemIds, d \in Directions : PeerMoveItem(i, d)
  \/ PeerItemsSnapshot

SpecOverwrite == InitRace /\ [][NextOverwrite]_vars

\* ------------------------------------------------------------------ C40
\* the step is the commit of a batch of backfillItemOrder
BackfillCommits == op.kind = "backfillItemOrder" /\ op.pc = "commit" /\ op' # op

\* C40: the commit of a backfillItemOrder batch leaves every order and every quantity
\* that is a finite number just before the commit as it is, also when another client has
\* moved the item or set its quantity since the run read the list.
C40_BackfillKeepsPresentFields ==
  [][BackfillCommits =>
       \A i \in DOMAIN items[op.listId] : \A f \in {"order", "quantity"} :
         isFiniteNumber(items[op.listId][i], f)
           => /\ i \in DOMAIN items'[op.listId]
              /\ items'[op.listId][i][f] = items[op.listId][i][f]]_vars

====
